---------------------------- MODULE Spec2Model ----------------------------
(***************************************************************************)
(* Smartspend: the derived analytics over the flat expense collection.     *)
(*   - SplitAnalysis.stats       (settlement engine)                       *)
(*   - ShelfLifeInsights.itemStats / shoppingList (replenishment)          *)
(*   - StorePlanner.plan         (store optimizer)                         *)
(* Money is counted in whole units and kept as exact fractions, so that    *)
(* `amount / people.length` is the quotient itself; a zero divisor yields  *)
(* the non-finite values JavaScript yields.  Time is counted in hours:     *)
(* a date string is midnight of its day, `now` is any hour.                *)
(***************************************************************************)
EXTENDS Integers, Sequences, FiniteSets, TLC

VARIABLES
    people,         \* App.people / the `people` prop: ordered participant names
    expenses,       \* App.expenses / the `expenses` prop: ordered expense records
    now,            \* the clock read by `new Date()` inside the analytics, in hours
    selectedStore,  \* StorePlanner.selectedStore
    stats,          \* value of SplitAnalysis.stats once rendered
    itemStats,      \* value of ShelfLifeInsights.itemStats once rendered
    plan,           \* value of StorePlanner.plan once rendered
    rendered,       \* the components whose memo has been computed from the props
    query,          \* GlobalSearch.query
    results,        \* value of GlobalSearch.results once rendered
    storage,        \* localStorage[STORAGE_KEY]
    mounted,        \* whether App's mount effects have run
    analysis,       \* App.analysis
    isAnalyzing,    \* App.isAnalyzing
    analyzeInFlight,\* generateContent requests of analyzeExpenses awaiting their response
    selectedItem,   \* App.selectedItem
    selectedBill,   \* App.selectedBill
    uuids,          \* how many values crypto.randomUUID() has handed out
    mode,           \* ExpenseForm.mode
    pendingItems,   \* ExpenseForm.pendingItems
    payer,          \* ExpenseForm.payer
    globalDiscount, \* ExpenseForm.globalDiscount (the text of the coupon field)
    billType,       \* ExpenseForm.billType
    isScanning,     \* ExpenseForm.isScanning
    parseInFlight,  \* parseReceipt calls under way: the answers they will get
    notice,         \* the alert shown when the last parseReceipt call settled
    activeTab       \* App: the tab shown in the main area, 'dashboard' or 'list'

viewVars == <<now, selectedStore, stats, itemStats, plan, rendered>>
searchVars == <<query, results>>
appVars == <<storage, mounted, analysis, isAnalyzing, analyzeInFlight,
             selectedItem, selectedBill, uuids, activeTab>>
formVars == <<mode, pendingItems, payer, globalDiscount, billType, isScanning, parseInFlight,
              notice>>

vars == <<people, expenses, viewVars, searchVars, appVars, formVars>>

\* The memo values before the first render.
NoStats == <<>>
NoItemStats == <<>>
NoPlan == [smartBuys |-> <<>>, otherNeeds |-> <<>>]
NoResults == [bills |-> <<>>, items |-> <<>>]

\* null, and a value that is not null
None == [isNull |-> TRUE]
Some(v) == [isNull |-> FALSE, value |-> v]

\* GlobalSearch before anything is typed: useState('')
InitGlobalSearch ==
    /\ query = <<>>
    /\ results = NoResults

\* App's own state at construction: the useState initial values
InitAppState ==
    /\ analysis = None
    /\ isAnalyzing = FALSE
    /\ analyzeInFlight = <<>>
    /\ selectedItem = None
    /\ selectedBill = None
    /\ uuids = 0
    /\ activeTab = "dashboard"

\* ExpenseForm at construction: the useState initial values
InitExpenseForm ==
    /\ mode = "input"
    /\ pendingItems = <<>>
    /\ payer = "Me"
    /\ globalDiscount = <<>>
    /\ billType = "shared"
    /\ isScanning = FALSE
    /\ parseInFlight = <<>>
    /\ notice = ""

\* The analytics components are given their props; the rest of the
\* application is as constructed and nothing is stored.
InitAroundAnalytics ==
    /\ InitGlobalSearch
    /\ InitAppState
    /\ InitExpenseForm
    /\ storage = None
    /\ mounted = TRUE

-----------------------------------------------------------------------------
(* Bounds of the explored inputs *)

MaxPeople == 2
MaxSplitExpenses == 2
MaxShelfExpenses == 2
MaxPlanExpenses == 2
MaxNowDay == 20
MaxCycleExpenses == 3

-----------------------------------------------------------------------------
(* JavaScript numbers, as far as the analytics use them *)

Abs(x) == IF x < 0 THEN -x ELSE x

RECURSIVE GCD(_, _)
GCD(a, b) == IF b = 0 THEN a ELSE GCD(b, a % b)

\* The finite number n/d in lowest terms, d > 0.
Fin(n, d) ==
    LET g == GCD(Abs(n), d)
    IN  [k |-> "fin", n |-> n \div g, d |-> d \div g]

Num(n) == Fin(n, 1)
Zero == Num(0)
NaN == [k |-> "nan", n |-> 0, d |-> 1]
Infinity == [k |-> "inf", n |-> 1, d |-> 1]
NegInfinity == [k |-> "inf", n |-> -1, d |-> 1]

IsFinite(x) == x.k = "fin"

\* x + y
NumAdd(x, y) ==
    IF IsFinite(x) /\ IsFinite(y) THEN Fin(x.n * y.d + y.n * x.d, x.d * y.d)
    ELSE IF x.k = "nan" \/ y.k = "nan" THEN NaN
    ELSE IF IsFinite(x) THEN y
    ELSE IF IsFinite(y) THEN x
    ELSE IF x.n = y.n THEN x ELSE NaN

NumNeg(x) == IF x.k = "nan" THEN NaN ELSE [x EXCEPT !.n = -x.n]

\* x - y
NumSub(x, y) == NumAdd(x, NumNeg(y))

\* x < y
NumLess(x, y) ==
    IF x.k = "nan" \/ y.k = "nan" THEN FALSE
    ELSE IF IsFinite(x) /\ IsFinite(y) THEN x.n * y.d < y.n * x.d
    ELSE IF IsFinite(x) THEN y.n > 0
    ELSE IF IsFinite(y) THEN x.n < 0
    ELSE x.n < y.n

\* x / m for a finite x and an integer m >= 0 (an array length)
NumDivInt(x, m) ==
    IF m # 0 THEN Fin(x.n, x.d * m)
    ELSE IF x.n > 0 THEN Infinity
    ELSE IF x.n < 0 THEN NegInfinity
    ELSE NaN

-----------------------------------------------------------------------------
(* SplitAnalysis.stats *)

ZeroEntry == [paid |-> Zero, consumed |-> Zero]

\* data[key] = { paid: 0, consumed: 0 }
PutZero(data, key) ==
    [x \in (DOMAIN data) \cup {key} |-> IF x = key THEN ZeroEntry ELSE data[x]]

\* if (!data[key]) data[key] = { paid: 0, consumed: 0 }
EnsureEntry(data, key) == IF key \in DOMAIN data THEN data ELSE PutZero(data, key)

\* people.forEach(p => { data[p] = { paid: 0, consumed: 0 } })
RECURSIVE InitData(_, _, _)
InitData(data, ps, i) ==
    IF i > Len(ps) THEN data ELSE InitData(PutZero(data, ps[i]), ps, i + 1)

\* Variant of AddShares: the share is added to every entry of data, not to the people.
AddSharesAllEntries(data, ps, i, splitAmount) ==
    [x \in DOMAIN data |-> [data[x] EXCEPT !.consumed = NumAdd(@, splitAmount)]]

\* people.forEach(p => { if (data[p]) data[p].consumed += splitAmount })
RECURSIVE AddShares(_, _, _, _)
AddShares(data, ps, i, splitAmount) ==
    IF i > Len(ps) THEN data
    ELSE LET p == ps[i]
             d == IF p \in DOMAIN data
                  THEN [data EXCEPT ![p].consumed = NumAdd(@, splitAmount)]
                  ELSE data
         IN  AddShares(d, ps, i + 1, splitAmount)

\* Variant of SplitAmount: a split hard-wired to two people.
SplitAmountInHalves(e, ps) == NumDivInt(Num(e.amount), 2)

\* const splitAmount = e.amount / people.length
SplitAmount(e, ps) == NumDivInt(Num(e.amount), Len(ps))

\* Variant of TrackPayment: a payer who is not a known person is dropped.
TrackPaymentKnownOnly(data, e) ==
    IF e.payer \in DOMAIN data
    THEN [data EXCEPT ![e.payer].paid = NumAdd(@, Num(e.amount))]
    ELSE data

\* 1. Track Payment
TrackPayment(data, e) ==
    LET d == EnsureEntry(data, e.payer)
    IN  [d EXCEPT ![e.payer].paid = NumAdd(@, Num(e.amount))]

\* Variant of TrackConsumption: an owner who is not a known person is dropped.
TrackConsumptionKnownOnly(data, e, ps) ==
    IF e.owner = "Shared"
    THEN AddShares(data, ps, 1, SplitAmount(e, ps))
    ELSE IF e.owner \in DOMAIN data
         THEN [data EXCEPT ![e.owner].consumed = NumAdd(@, Num(e.amount))]
         ELSE data

\* 2. Track Consumption
TrackConsumption(data, e, ps) ==
    IF e.owner = "Shared"
    THEN AddShares(data, ps, 1, SplitAmount(e, ps))
    ELSE LET d == EnsureEntry(data, e.owner)
         IN  [d EXCEPT ![e.owner].consumed = NumAdd(@, Num(e.amount))]

\* expenses.forEach(e => { ... })
RECURSIVE Accumulate(_, _, _, _)
Accumulate(data, es, i, ps) ==
    IF i > Len(es) THEN data
    ELSE Accumulate(TrackConsumption(TrackPayment(data, es[i]), es[i], ps), es, i + 1, ps)

\* Calculate net balances
NetBalances(data) ==
    [key \in DOMAIN data |->
        [paid |-> data[key].paid,
         consumed |-> data[key].consumed,
         net |-> NumSub(data[key].paid, data[key].consumed)]]

EmptyData == [x \in {} |-> ZeroEntry]

Stats(es, ps) == NetBalances(Accumulate(InitData(EmptyData, ps, 1), es, 1, ps))

\* Every division the memo evaluates: one per expense owned by "Shared".
SplitAmounts(es, ps) ==
    {SplitAmount(es[i], ps) : i \in {j \in 1..Len(es) : es[j].owner = "Shared"}}

-----------------------------------------------------------------------------
(* Strings and dates, as far as the analytics use them *)

UpperLetters == <<"A", "B", "C", "D", "E", "F", "G", "H", "I", "J", "K", "L", "M",
                  "N", "O", "P", "Q", "R", "S", "T", "U", "V", "W", "X", "Y", "Z">>
LowerLetters == <<"a", "b", "c", "d", "e", "f", "g", "h", "i", "j", "k", "l", "m",
                  "n", "o", "p", "q", "r", "s", "t", "u", "v", "w", "x", "y", "z">>

\* One character of String.prototype.toLowerCase
LowerChar(c) ==
    IF \E i \in DOMAIN UpperLetters : UpperLetters[i] = c
    THEN LowerLetters[CHOOSE i \in DOMAIN UpperLetters : UpperLetters[i] = c]
    ELSE c

\* String.prototype.toLowerCase, a string being the sequence of its characters
ToLowerCase(str) == [i \in DOMAIN str |-> LowerChar(str[i])]

RECURSIVE TrimStart(_)
TrimStart(str) ==
    IF str # <<>> /\ Head(str) = " " THEN TrimStart(Tail(str)) ELSE str

RECURSIVE TrimEnd(_)
TrimEnd(str) ==
    IF str # <<>> /\ str[Len(str)] = " " THEN TrimEnd(SubSeq(str, 1, Len(str) - 1)) ELSE str

\* String.prototype.trim
Trim(str) == TrimEnd(TrimStart(str))

\* e.description.trim().toLowerCase()
NormName(description) == ToLowerCase(Trim(description))

\* 1000 * 60 * 60 * 24 milliseconds, counted in hours
HoursPerDay == 24

\* new Date(date).getTime(): a date string is midnight of its day
GetTime(date) == date * HoursPerDay

\* Math.floor(a / b), b > 0
FloorDiv(a, b) == a \div b

\* Math.round(a / b), b > 0: halves go up
RoundDiv(a, b) == (2 * a + b) \div (2 * b)

-----------------------------------------------------------------------------
(* Grouping by normalized name: step 1 of ShelfLifeInsights.itemStats and of
   StorePlanner.plan.  The object `items` is the sequence of its entries in
   insertion order. *)

HasKey(items, key) == \E i \in DOMAIN items : items[i].key = key
IndexOfKey(items, key) == CHOOSE i \in DOMAIN items : items[i].key = key

\* The body of expenses.forEach(e => { ... })
GroupExpense(items, e) ==
    LET normName == NormName(e.description)
        created == IF HasKey(items, normName) THEN items
                   ELSE Append(items, [key |-> normName, dates |-> <<>>,
                                       category |-> e.category, name |-> e.description])
        k == IndexOfKey(created, normName)
        pushed == [created EXCEPT ![k].dates = Append(@, e.date)]
    IN  IF GetTime(e.date) > GetTime(pushed[k].dates[1])
        THEN [pushed EXCEPT ![k].name = e.description]
        ELSE pushed

RECURSIVE GroupItems(_, _, _)
GroupItems(items, es, i) ==
    IF i > Len(es) THEN items ELSE GroupItems(GroupExpense(items, es[i]), es, i + 1)

\* Insertion of the pair x = [k, v] behind the pairs that do not sort after it.
RECURSIVE InsertSorted(_, _)
InsertSorted(sorted, x) ==
    IF sorted = <<>> THEN <<x>>
    ELSE IF x.k < Head(sorted).k THEN <<x>> \o sorted
    ELSE <<Head(sorted)>> \o InsertSorted(Tail(sorted), x)

RECURSIVE SortPairs(_)
SortPairs(pairs) ==
    IF pairs = <<>> THEN <<>>
    ELSE InsertSorted(SortPairs(SubSeq(pairs, 1, Len(pairs) - 1)), pairs[Len(pairs)])

\* Array.prototype.sort((a, b) => rank[b] - rank[a]): stable, larger rank first
SortDescending(s, rank) ==
    LET sorted == SortPairs([i \in DOMAIN s |-> [k |-> -rank[i], v |-> s[i]]])
    IN  [i \in DOMAIN sorted |-> sorted[i].v]

\* item.dates.sort((a, b) => new Date(b).getTime() - new Date(a).getTime())
SortDatesDescending(dates) == SortDescending(dates, [i \in DOMAIN dates |-> GetTime(dates[i])])

\* Math.floor((now.getTime() - lastDate.getTime()) / (1000 * 60 * 60 * 24))
DaysSince(t, lastDate) == FloorDiv(t - GetTime(lastDate), HoursPerDay)

RECURSIVE TotalDays(_, _)
TotalDays(sortedDates, i) ==
    IF i > Len(sortedDates) - 1 THEN 0
    ELSE (GetTime(sortedDates[i]) - GetTime(sortedDates[i + 1])) + TotalDays(sortedDates, i + 1)

Null == [isNull |-> TRUE, days |-> 0]
Known(n) == [isNull |-> FALSE, days |-> n]

AvgCycleOverCount(sortedDates) ==
    IF Len(sortedDates) >= 2
    THEN Known(RoundDiv(TotalDays(sortedDates, 1), Len(sortedDates) * HoursPerDay))
    ELSE Null

\* Calculate Average Cycle
AvgCycle(sortedDates) ==
    IF Len(sortedDates) >= 2
    THEN Known(RoundDiv(TotalDays(sortedDates, 1), (Len(sortedDates) - 1) * HoursPerDay))
    ELSE Null

\* Generic shelf life estimates in days
SHELF_LIFE_DAYS ==
    [c \in {"Vegetables", "Fruits", "Meat & Seafood", "Dairy & Eggs", "Bakery",
            "Pantry & Dry Goods", "Frozen Foods", "Snacks & Candy", "Beverages", "Alcohol",
            "Deli & Prepared", "Baby", "Pet Supplies", "Household & Cleaning",
            "Personal Care & Pharmacy", "Other"} |->
        CASE c = "Vegetables" -> 7
          [] c = "Fruits" -> 7
          [] c = "Meat & Seafood" -> 3
          [] c = "Dairy & Eggs" -> 14
          [] c = "Bakery" -> 5
          [] c = "Pantry & Dry Goods" -> 90
          [] c = "Frozen Foods" -> 30
          [] c = "Snacks & Candy" -> 21
          [] c = "Beverages" -> 14
          [] c = "Alcohol" -> 365
          [] c = "Deli & Prepared" -> 4
          [] c = "Baby" -> 14
          [] c = "Pet Supplies" -> 30
          [] c = "Household & Cleaning" -> 60
          [] c = "Personal Care & Pharmacy" -> 45
          [] c = "Other" -> 14]

\* The shelf life used when the category has none in the table
DefaultShelfLife == 14

\* SHELF_LIFE_DAYS[category] || 14
ShelfLife(category) ==
    IF category \in DOMAIN SHELF_LIFE_DAYS /\ SHELF_LIFE_DAYS[category] # 0
    THEN SHELF_LIFE_DAYS[category]
    ELSE DefaultShelfLife

-----------------------------------------------------------------------------
(* ShelfLifeInsights.itemStats and shoppingList *)

\* Variant of CycleStatus: the warning starts at 0.9 of the cycle.
CycleStatusNineTenths(daysSince, avgCycle) ==
    IF daysSince >= avgCycle THEN "Stock Up"
    ELSE IF 10 * daysSince >= 9 * avgCycle THEN "Running Low"
    ELSE "Good"

\* Determine Status, avgCycle !== null: daysSince >= avgCycle, daysSince >= avgCycle * 0.8
CycleStatus(daysSince, avgCycle) ==
    IF daysSince >= avgCycle THEN "Stock Up"
    ELSE IF 10 * daysSince >= 8 * avgCycle THEN "Running Low"
    ELSE "Good"

\* Variant of ShelfStatus: the warning starts at 0.8 of the shelf life.
ShelfStatusFourFifths(daysSince, shelfLife) ==
    IF daysSince >= shelfLife THEN "Stock Up"
    ELSE IF 10 * daysSince >= 8 * shelfLife THEN "Running Low"
    ELSE "Good"

\* Determine Status, avgCycle === null: daysSince >= shelfLife, daysSince >= shelfLife * 0.9
ShelfStatus(daysSince, shelfLife) ==
    IF daysSince >= shelfLife THEN "Stock Up"
    ELSE IF 10 * daysSince >= 9 * shelfLife THEN "Running Low"
    ELSE "Good"

\* The body of Object.values(items).map(item => { ... })
ItemStat(item, t) ==
    LET sortedDates == SortDatesDescending(item.dates)
        lastDate == sortedDates[1]
        daysSince == DaysSince(t, lastDate)
        avgCycle == AvgCycle(sortedDates)
        shelfLife == ShelfLife(item.category)
        status == IF ~avgCycle.isNull
                  THEN CycleStatus(daysSince, avgCycle.days)
                  ELSE ShelfStatus(daysSince, shelfLife)
    IN  [name |-> item.name,
         category |-> item.category,
         lastPurchased |-> lastDate,
         daysSinceLastPurchase |-> daysSince,
         avgCycle |-> avgCycle,
         purchaseCount |-> Len(sortedDates),
         genericShelfLife |-> shelfLife,
         status |-> status]

\* const score = (s: string) => { ... }
Score(s) ==
    IF s = "Stock Up" THEN 4
    ELSE IF s = "Running Low" THEN 3
    ELSE IF s = "Good" THEN 2
    ELSE 1

SortByUrgencyAscending(sts) == SortDescending(sts, [i \in DOMAIN sts |-> -Score(sts[i].status)])

\* stats.sort((a, b) => score(b.status) - score(a.status))
SortByUrgency(sts) == SortDescending(sts, [i \in DOMAIN sts |-> Score(sts[i].status)])

ItemStats(es, t) ==
    LET items == GroupItems(<<>>, es, 1)
    IN  SortByUrgency([i \in DOMAIN items |-> ItemStat(items[i], t)])

\* itemStats.filter(i => i.status === 'Stock Up' || i.status === 'Running Low')
ShoppingList(its) == SelectSeq(its, LAMBDA i : i.status = "Stock Up" \/ i.status = "Running Low")

-----------------------------------------------------------------------------
(* StorePlanner.plan *)

\* 1. Identify Item Shortages: the grouping duplicated from ShelfLifeInsights
ItemGroups(es) == GroupItems(<<>>, es, 1)

\* Determine if Needed: daysSince >= avgCycle * 0.9, else daysSince >= shelfLife * 0.9
IsNeeded(daysSince, avgCycle, shelfLife) ==
    IF ~avgCycle.isNull
    THEN 10 * daysSince >= 9 * avgCycle.days
    ELSE 10 * daysSince >= 9 * shelfLife

\* The body of Object.entries(itemGroups).forEach(([normName, data]) => { ... })
GroupIsNeeded(data, t) ==
    LET sortedDates == SortDatesDescending(data.dates)
        lastDate == sortedDates[1]
        daysSince == DaysSince(t, lastDate)
        avgCycle == AvgCycle(sortedDates)
        shelfLife == ShelfLife(data.category)
    IN  IsNeeded(daysSince, avgCycle, shelfLife)

\* neededItems
NeededItems(itemGroups, t) ==
    {itemGroups[i].key : i \in {j \in DOMAIN itemGroups : GroupIsNeeded(itemGroups[j], t)}}

\* e.store || 'Unknown'
StoreKey(e) == IF e.store = "" THEN "Unknown" ELSE e.store

HasStore(storeStats, s) == \E i \in DOMAIN storeStats : storeStats[i].store = s
IndexOfStore(storeStats, s) == CHOOSE i \in DOMAIN storeStats : storeStats[i].store = s

\* Calc stats per store: the object storeStats as the sequence of its entries
RECURSIVE StoreStats(_, _, _)
StoreStats(storeStats, itemExpenses, i) ==
    IF i > Len(itemExpenses) THEN storeStats
    ELSE LET e == itemExpenses[i]
             s == StoreKey(e)
             created == IF HasStore(storeStats, s) THEN storeStats
                        ELSE Append(storeStats, [store |-> s, sum |-> Zero, count |-> 0])
             k == IndexOfStore(created, s)
             added == [created EXCEPT ![k].sum = NumAdd(@, Num(e.amount)),
                                      ![k].count = @ + 1]
         IN  StoreStats(added, itemExpenses, i + 1)

\* stats.sum / stats.count
StoreAvg(entry) == NumDivInt(entry.sum, entry.count)

\* Object.entries(storeStats).forEach(([s, stats]) => { if (avg < minAvg) ... })
RECURSIVE Cheapest(_, _, _)
Cheapest(storeStats, i, best) ==
    IF i > Len(storeStats) THEN best
    ELSE LET avg == StoreAvg(storeStats[i])
         IN  IF NumLess(avg, best.minAvg)
             THEN Cheapest(storeStats, i + 1, [cheapestStore |-> storeStats[i].store, minAvg |-> avg])
             ELSE Cheapest(storeStats, i + 1, best)

\* let cheapestStore = ''; let minAvg = Infinity
NoCheapest == [cheapestStore |-> "", minAvg |-> Infinity]

\* expenses.filter(e => e.description.trim().toLowerCase() === normName)
ItemExpenses(es, normName) == SelectSeq(es, LAMBDA e : NormName(e.description) = normName)

\* Variant of PlanItem: an item sold at one store only is not told apart.
PlanItemNoExclusive(lists, itemData, es, selected) ==
    LET storeStats == StoreStats(<<>>, ItemExpenses(es, itemData.key), 1)
        best == Cheapest(storeStats, 1, NoCheapest)
    IN  IF HasStore(storeStats, selected)
        THEN LET avgAtSelected == StoreAvg(storeStats[IndexOfStore(storeStats, selected)])
             IN  IF best.cheapestStore = selected
                 THEN [lists EXCEPT !.smartBuys = Append(@,
                          [name |-> itemData.name, category |-> itemData.category,
                           reason |-> "Best Price", avgPriceHere |-> avgAtSelected,
                           isNeeded |-> TRUE])]
                 ELSE [lists EXCEPT !.otherNeeds = Append(@,
                          [name |-> itemData.name, category |-> itemData.category,
                           reason |-> "Needed", avgPriceHere |-> avgAtSelected,
                           cheapestStore |-> best.cheapestStore,
                           savings |-> NumSub(avgAtSelected, best.minAvg),
                           isNeeded |-> TRUE])]
        ELSE [lists EXCEPT !.otherNeeds = Append(@,
                 [name |-> itemData.name, category |-> itemData.category,
                  reason |-> "Needed", avgPriceHere |-> Zero,
                  cheapestStore |-> best.cheapestStore,
                  isNeeded |-> TRUE])]

\* Variant of PlanItem: an item never bought at the selected store is left out.
PlanItemSoldHereOnly(lists, itemData, es, selected) ==
    LET storeStats == StoreStats(<<>>, ItemExpenses(es, itemData.key), 1)
        best == Cheapest(storeStats, 1, NoCheapest)
        uniqueStore == IF Len(storeStats) = 1 THEN <<storeStats[1].store>> ELSE <<>>
    IN  IF HasStore(storeStats, selected)
        THEN LET avgAtSelected == StoreAvg(storeStats[IndexOfStore(storeStats, selected)])
             IN  IF uniqueStore = <<selected>>
                 THEN [lists EXCEPT !.smartBuys = Append(@,
                          [name |-> itemData.name, category |-> itemData.category,
                           reason |-> "Exclusive", avgPriceHere |-> avgAtSelected,
                           isNeeded |-> TRUE])]
                 ELSE IF best.cheapestStore = selected
                 THEN [lists EXCEPT !.smartBuys = Append(@,
                          [name |-> itemData.name, category |-> itemData.category,
                           reason |-> "Best Price", avgPriceHere |-> avgAtSelected,
                           isNeeded |-> TRUE])]
                 ELSE [lists EXCEPT !.otherNeeds = Append(@,
                          [name |-> itemData.name, category |-> itemData.category,
                           reason |-> "Needed", avgPriceHere |-> avgAtSelected,
                           cheapestStore |-> best.cheapestStore,
                           savings |-> NumSub(avgAtSelected, best.minAvg),
                           isNeeded |-> TRUE])]
        ELSE lists

\* 2. Analyze Prices & Exclusivity: the body of Object.keys(itemGroups).forEach for a
\* needed item.  uniqueStore is <<s>> for the only store s, <<>> for null.
PlanItem(lists, itemData, es, selected) ==
    LET storeStats == StoreStats(<<>>, ItemExpenses(es, itemData.key), 1)
        best == Cheapest(storeStats, 1, NoCheapest)
        uniqueStore == IF Len(storeStats) = 1 THEN <<storeStats[1].store>> ELSE <<>>
    IN  IF HasStore(storeStats, selected)
        THEN LET avgAtSelected == StoreAvg(storeStats[IndexOfStore(storeStats, selected)])
             IN  IF uniqueStore = <<selected>>
                 THEN [lists EXCEPT !.smartBuys = Append(@,
                          [name |-> itemData.name, category |-> itemData.category,
                           reason |-> "Exclusive", avgPriceHere |-> avgAtSelected,
                           isNeeded |-> TRUE])]
                 ELSE IF best.cheapestStore = selected
                 THEN [lists EXCEPT !.smartBuys = Append(@,
                          [name |-> itemData.name, category |-> itemData.category,
                           reason |-> "Best Price", avgPriceHere |-> avgAtSelected,
                           isNeeded |-> TRUE])]
                 ELSE [lists EXCEPT !.otherNeeds = Append(@,
                          [name |-> itemData.name, category |-> itemData.category,
                           reason |-> "Needed", avgPriceHere |-> avgAtSelected,
                           cheapestStore |-> best.cheapestStore,
                           savings |-> NumSub(avgAtSelected, best.minAvg),
                           isNeeded |-> TRUE])]
        ELSE [lists EXCEPT !.otherNeeds = Append(@,
                 [name |-> itemData.name, category |-> itemData.category,
                  reason |-> "Needed", avgPriceHere |-> Zero,
                  cheapestStore |-> best.cheapestStore,
                  isNeeded |-> TRUE])]

\* Object.keys(itemGroups).forEach(normName => { if (!neededItems.has(normName)) return; ... })
RECURSIVE PlanItems(_, _, _, _, _, _)
PlanItems(lists, itemGroups, i, neededItems, es, selected) ==
    IF i > Len(itemGroups) THEN lists
    ELSE IF itemGroups[i].key \notin neededItems
    THEN PlanItems(lists, itemGroups, i + 1, neededItems, es, selected)
    ELSE PlanItems(PlanItem(lists, itemGroups[i], es, selected),
                   itemGroups, i + 1, neededItems, es, selected)

Plan(es, selected, t) ==
    IF selected = "" THEN [smartBuys |-> <<>>, otherNeeds |-> <<>>]
    ELSE LET itemGroups == ItemGroups(es)
         IN  PlanItems([smartBuys |-> <<>>, otherNeeds |-> <<>>], itemGroups, 1,
                       NeededItems(itemGroups, t), es, selected)

-----------------------------------------------------------------------------
(* Inputs of the settlement engine *)

Roster == <<"Me", "Partner", "Guest", "Kid">>
Min(a, b) == IF a < b THEN a ELSE b
PeopleLists == {SubSeq(Roster, 1, n) : n \in 0..Min(MaxPeople, Len(Roster))}

SplitAmountsIn == {0, 10, 20}
PayerNames == {"Me", "Partner", "Ex"}
OwnerNames == {"Shared", "Me", "Partner", "Ex"}

SplitExpense(a, p, o) ==
    [id |-> 0, description |-> <<"m">>, amount |-> a, date |-> 0,
     category |-> "Other", store |-> "A", payer |-> p, owner |-> o]

SplitExpenses == {SplitExpense(a, p, o) : a \in SplitAmountsIn, p \in PayerNames, o \in OwnerNames}

SeqsUpTo(S, n) == UNION {[1..m -> S] : m \in 0..n}

InitSplit ==
    /\ people \in PeopleLists
    /\ expenses \in SeqsUpTo(SplitExpenses, MaxSplitExpenses)
    /\ now = 0
    /\ selectedStore = ""
    /\ stats = NoStats
    /\ itemStats = NoItemStats
    /\ plan = NoPlan
    /\ rendered = {}
    /\ InitAroundAnalytics

\* SplitAnalysis renders: useMemo computes stats from the props.
RenderSplitAnalysis ==
    /\ "SplitAnalysis" \notin rendered
    /\ stats' = Stats(expenses, people)
    /\ rendered' = rendered \cup {"SplitAnalysis"}
    /\ UNCHANGED <<people, expenses, now, selectedStore, itemStats, plan>>
    /\ UNCHANGED <<searchVars, appVars, formVars>>

NextSplit == RenderSplitAnalysis

SpecSplit == InitSplit /\ [][NextSplit]_vars

-----------------------------------------------------------------------------
(* Inputs of the replenishment predictor *)

\* "M", "m " and " m" are one item, "E" is another.
ShelfDescriptions == {<<"M">>, <<"m", " ">>, <<"E">>}
ShelfDates == {0, 3, 10}
\* A category of the table and one that the table does not hold.
ShelfCategories == {"Bakery", "Gadgets"}
\* The hour of the day at which the dashboard is rendered.
NowHours == {0, 12}

ShelfExpense(desc, d, c) ==
    [id |-> 0, description |-> desc, amount |-> 10, date |-> d,
     category |-> c, store |-> "A", payer |-> "Me", owner |-> "Shared"]

ShelfExpenses ==
    {ShelfExpense(desc, d, c) : desc \in ShelfDescriptions, d \in ShelfDates, c \in ShelfCategories}

InitShelf ==
    /\ people = <<"Me", "Partner">>
    /\ expenses \in SeqsUpTo(ShelfExpenses, MaxShelfExpenses)
    /\ now \in {GetTime(d) + h : d \in 0..MaxNowDay, h \in NowHours}
    /\ selectedStore = ""
    /\ stats = NoStats
    /\ itemStats = NoItemStats
    /\ plan = NoPlan
    /\ rendered = {}
    /\ InitAroundAnalytics

\* ShelfLifeInsights renders: useMemo computes itemStats from the props and the clock.
RenderShelfLifeInsights ==
    /\ "ShelfLifeInsights" \notin rendered
    /\ itemStats' = ItemStats(expenses, now)
    /\ rendered' = rendered \cup {"ShelfLifeInsights"}
    /\ UNCHANGED <<people, expenses, now, selectedStore, stats, plan>>
    /\ UNCHANGED <<searchVars, appVars, formVars>>

NextShelf == RenderShelfLifeInsights

SpecShelf == InitShelf /\ [][NextShelf]_vars

-----------------------------------------------------------------------------
(* Inputs of the store optimizer *)

PlanDescriptions == {<<"M">>, <<"m", " ">>, <<"E">>}
PlanDates == {0, 10}
PlanStores == {"A", "B", ""}
PlanAmounts == {10, 20}
PlanNowDays == {18, 19}

PlanExpense(desc, d, st, a) ==
    [id |-> 0, description |-> desc, amount |-> a, date |-> d,
     category |-> "Other", store |-> st, payer |-> "Me", owner |-> "Shared"]

PlanExpenses ==
    {PlanExpense(desc, d, st, a) :
        desc \in PlanDescriptions, d \in PlanDates, st \in PlanStores, a \in PlanAmounts}

\* The store names in the order of Array.prototype.sort()
SortedStoreNames == <<"A", "B">>

\* stores: the distinct non-empty store names, sorted
Stores(es) == SelectSeq(SortedStoreNames, LAMBDA st : \E i \in DOMAIN es : es[i].store = st)

InitPlan ==
    /\ people = <<"Me", "Partner">>
    /\ expenses \in SeqsUpTo(PlanExpenses, MaxPlanExpenses)
    /\ now \in {GetTime(d) + 12 : d \in PlanNowDays}
    /\ selectedStore = ""
    /\ stats = NoStats
    /\ itemStats = NoItemStats
    /\ plan = NoPlan
    /\ rendered = {}
    /\ InitAroundAnalytics

\* Dashboard renders SplitAnalysis, StorePlanner and ShelfLifeInsights in one
\* pass.  StorePlanner mounts: the plan is computed, the default-selection effect
\* picks stores[0] when nothing is selected, and the plan is recomputed for it.
RenderDashboard ==
    /\ activeTab = "dashboard"
    /\ rendered = {}
    /\ stats' = Stats(expenses, people)
    /\ selectedStore' = IF selectedStore = "" /\ Len(Stores(expenses)) > 0
                        THEN Stores(expenses)[1]
                        ELSE selectedStore
    /\ plan' = Plan(expenses, selectedStore', now)
    /\ itemStats' = ItemStats(expenses, now)
    /\ rendered' = {"SplitAnalysis", "StorePlanner", "ShelfLifeInsights"}
    /\ UNCHANGED <<people, expenses, now>>
    /\ UNCHANGED <<searchVars, appVars, formVars>>

\* The user picks a store in the select: setSelectedStore, and the plan is recomputed.
SelectStore(st) ==
    /\ "StorePlanner" \in rendered
    /\ \E i \in DOMAIN Stores(expenses) : Stores(expenses)[i] = st
    /\ st # selectedStore
    /\ selectedStore' = st
    /\ plan' = Plan(expenses, st, now)
    /\ UNCHANGED <<people, expenses, now, stats, itemStats, rendered>>
    /\ UNCHANGED <<searchVars, appVars, formVars>>

NextPlan ==
    \/ RenderDashboard
    \/ \E st \in PlanStores : SelectStore(st)

SpecPlan == InitPlan /\ [][NextPlan]_vars

-----------------------------------------------------------------------------
(* Settlement: what the claims speak about *)

SplitRendered == "SplitAnalysis" \in rendered

Range(s) == {s[i] : i \in DOMAIN s}

Payers(es) == {es[i].payer : i \in DOMAIN es}
Owners(es) == {es[i].owner : i \in DOMAIN es}
PersonalOwners(es) == Owners(es) \ {"Shared"}

\* Sum of f[i] over the indices i in S, for a function f to numbers.
RECURSIVE NumSum(_, _)
NumSum(f, S) ==
    IF S = {} THEN Zero
    ELSE LET i == CHOOSE x \in S : TRUE
         IN  NumAdd(f[i], NumSum(f, S \ {i}))

\* sum(net[p] for p in P)
SumNetOverPeople == NumSum([i \in DOMAIN people |-> stats[people[i]].net], DOMAIN people)

\* The amounts paid by `name`, summed.
PaidBy(name) ==
    NumSum([i \in DOMAIN expenses |-> Num(expenses[i].amount)],
           {i \in DOMAIN expenses : expenses[i].payer = name})

\* What one expense adds to the consumption of `name` by the consumption rule.
ConsumptionOf(e, name) ==
    IF e.owner = "Shared"
    THEN IF name \in Range(people) THEN NumDivInt(Num(e.amount), Len(people)) ELSE Zero
    ELSE IF e.owner = name THEN Num(e.amount) ELSE Zero

ConsumedBy(name) ==
    NumSum([i \in DOMAIN expenses |-> ConsumptionOf(expenses[i], name)], DOMAIN expenses)

\* What the personal (non-Shared) expenses alone add to the consumption of `name`.
PersonallyConsumedBy(name) ==
    NumSum([i \in DOMAIN expenses |-> Num(expenses[i].amount)],
           {i \in DOMAIN expenses : expenses[i].owner = name /\ name # "Shared"})

OwnersKnown == PersonalOwners(expenses) \subseteq Range(people)
PayersKnown == Payers(expenses) \subseteq Range(people)

\* C1 as stated: whenever every owner is a participant or "Shared", the net
\* balances of the participants sum to zero, whoever the payers are.
C1_ZeroSumAnyPayer ==
    (SplitRendered /\ OwnersKnown) => SumNetOverPeople = Zero

\* C1 amended: whenever every owner is a participant or "Shared" and every
\* payer is a participant, the net balances of the participants sum to zero.
C1_ZeroSumKnownPayers ==
    (SplitRendered /\ OwnersKnown /\ PayersKnown) => SumNetOverPeople = Zero

\* A shared and a personal expense paid by participants, with unsettled balances.
C1_Witness ==
    /\ SplitRendered /\ OwnersKnown /\ PayersKnown
    /\ Len(people) >= 2
    /\ "Shared" \in Owners(expenses)
    /\ PersonalOwners(expenses) # {}
    /\ \E p \in Range(people) : stats[p].net # Zero

ExampleExpenses ==
    <<SplitExpense(10, "Me", "Shared"), SplitExpense(20, "Partner", "Me")>>

\* C2: a "Shared" expense adds amount/|P| to the consumption of every
\* participant and of no one else, any other expense adds its full amount to
\* its owner only, and an owner outside P gets an entry; in the example of
\* the specification consumed = {Me: 25, Partner: 5}, net = {Me: -15, Partner: 15}.
C2_ConsumptionRule ==
    SplitRendered =>
        /\ PersonalOwners(expenses) \subseteq DOMAIN stats
        /\ \A name \in DOMAIN stats : stats[name].consumed = ConsumedBy(name)
        /\ (people = <<"Me", "Partner">> /\ expenses = ExampleExpenses) =>
              /\ stats["Me"].consumed = Num(25) /\ stats["Partner"].consumed = Num(5)
              /\ stats["Me"].net = Num(-15) /\ stats["Partner"].net = Num(15)

\* The example of the specification, rendered.
C2_Witness ==
    /\ SplitRendered
    /\ people = <<"Me", "Partner">>
    /\ expenses = ExampleExpenses
    /\ stats["Me"].consumed = Num(25)

\* C3: the result has an entry for every participant, payer and non-Shared
\* owner; paid is the sum of the amounts paid under that name, and
\* net = paid - consumed.
C3_PaymentRule ==
    SplitRendered =>
        /\ (Range(people) \cup Payers(expenses) \cup PersonalOwners(expenses)) \subseteq DOMAIN stats
        /\ \A name \in DOMAIN stats :
              /\ stats[name].paid = PaidBy(name)
              /\ stats[name].net = NumSub(PaidBy(name), ConsumedBy(name))

\* A payer who is no longer a participant has paid something.
C3_Witness ==
    /\ SplitRendered
    /\ \E name \in Payers(expenses) \ Range(people) :
          /\ name \in DOMAIN stats
          /\ stats[name].paid # Zero
    /\ Range(people) # {}

AllFinite ==
    \A name \in DOMAIN stats :
        IsFinite(stats[name].paid) /\ IsFinite(stats[name].consumed) /\ IsFinite(stats[name].net)

NoParticipantsButShared == people = <<>> /\ "Shared" \in Owners(expenses)

\* C4 as stated: with no participant and a "Shared" expense, no division by
\* zero is performed, the shared expense contributes nothing and every value
\* of the result is finite.
C4_NoDivisionByZero ==
    (SplitRendered /\ NoParticipantsButShared) =>
        /\ \A q \in SplitAmounts(expenses, people) : IsFinite(q)
        /\ \A name \in DOMAIN stats : stats[name].consumed = PersonallyConsumedBy(name)
        /\ AllFinite

\* C4 amended: with no participant and a "Shared" expense, the quotient
\* amount / 0 is evaluated but added to no entry: the shared expense
\* contributes nothing and every value of the result is finite.
C4_SharedSkippedWhenNoParticipants ==
    (SplitRendered /\ NoParticipantsButShared) =>
        /\ \A q \in SplitAmounts(expenses, people) : ~IsFinite(q)
        /\ \A name \in DOMAIN stats : stats[name].consumed = PersonallyConsumedBy(name)
        /\ AllFinite

\* No participant, a "Shared" expense of a positive amount, and an entry in the result.
C4_Witness ==
    /\ SplitRendered /\ NoParticipantsButShared
    /\ \E i \in DOMAIN expenses : expenses[i].owner = "Shared" /\ expenses[i].amount > 0
    /\ DOMAIN stats # {}


-----------------------------------------------------------------------------
(* Replenishment: what the claims speak about *)

ShelfRendered == "ShelfLifeInsights" \in rendered

\* The normalized item names of the collection.
Keys == {NormName(expenses[i].description) : i \in DOMAIN expenses}

\* The purchases of an item: the positions of its expenses in the collection.
Purchases(key) == {i \in DOMAIN expenses : NormName(expenses[i].description) = key}

PurchaseDates(key) == {expenses[i].date : i \in Purchases(key)}

HasStat(key) == \E i \in DOMAIN itemStats : NormName(itemStats[i].name) = key
StatOf(key) == itemStats[CHOOSE i \in DOMAIN itemStats : NormName(itemStats[i].name) = key]

\* Status by the thresholds of the claims: at or past `span` days, at or past
\* `tenths`/10 of it, or before that.
StatusByThreshold(days, span, tenths) ==
    IF days >= span THEN "Stock Up"
    ELSE IF tenths * span <= 10 * days /\ days < span THEN "Running Low"
    ELSE "Good"

NowIsDay(d) == GetTime(d) <= now /\ now < GetTime(d + 1)

\* The classification rule of C5 for one item with at least 2 purchases.
CycleRuleHolds(key) ==
    /\ HasStat(key)
    /\ ~StatOf(key).avgCycle.isNull
    /\ StatOf(key).status =
          StatusByThreshold(StatOf(key).daysSinceLastPurchase, StatOf(key).avgCycle.days, 8)

BoughtOnDays0And10(key) == PurchaseDates(key) = {0, 10} /\ Cardinality(Purchases(key)) = 2

\* C5 as stated: an item with at least 2 purchases has a known avgCycle and is
\* "Stock Up" iff daysSince >= avgCycle, "Running Low" iff 0.8 * avgCycle <=
\* daysSince < avgCycle, "Good" otherwise; purchases on day 0 and day 10 give
\* "Running Low" at now = day 9 and "Stock Up" at now = day 10.
C5_CycleClassification ==
    ShelfRendered =>
        \A key \in Keys :
            Cardinality(Purchases(key)) >= 2 =>
                /\ CycleRuleHolds(key)
                /\ BoughtOnDays0And10(key) =>
                      /\ NowIsDay(9) => StatOf(key).status = "Running Low"
                      /\ NowIsDay(10) => StatOf(key).status = "Stock Up"

\* C5 amended: the same rule; purchases on day 0 and day 10 (avgCycle = 10) give
\* "Running Low" at now = day 19, 9 days after the last purchase, and "Stock Up"
\* at now = day 20; at now = day 9 and day 10 the status is "Good".
C5_CycleClassificationSinceLastPurchase ==
    ShelfRendered =>
        \A key \in Keys :
            Cardinality(Purchases(key)) >= 2 =>
                /\ CycleRuleHolds(key)
                /\ BoughtOnDays0And10(key) =>
                      /\ StatOf(key).avgCycle.days = 10
                      /\ NowIsDay(19) => /\ StatOf(key).daysSinceLastPurchase = 9
                                         /\ StatOf(key).status = "Running Low"
                      /\ NowIsDay(20) => StatOf(key).status = "Stock Up"
                      /\ (NowIsDay(9) \/ NowIsDay(10)) => StatOf(key).status = "Good"

\* Purchases on day 0 and day 10, rendered on day 19.
C5_Witness ==
    /\ ShelfRendered
    /\ NowIsDay(19)
    /\ \E key \in Keys :
          /\ BoughtOnDays0And10(key)
          /\ StatOf(key).status = "Running Low"

\* The generic shelf life of the claims: the table's value, 14 outside the table.
GenericShelfLife(category) ==
    IF category = "Bakery" THEN 5 ELSE 14

\* C6: an item with exactly one purchase has no avgCycle and is classified by the
\* generic shelf life of its category (14 days outside the table): "Stock Up" iff
\* daysSince >= shelfLife, "Running Low" iff 0.9 * shelfLife <= daysSince <
\* shelfLife, "Good" otherwise.
C6_FallbackClassification ==
    ShelfRendered =>
        \A key \in Keys :
            Cardinality(Purchases(key)) = 1 =>
                LET e == expenses[CHOOSE i \in Purchases(key) : TRUE]
                IN  /\ HasStat(key)
                    /\ StatOf(key).avgCycle.isNull
                    /\ StatOf(key).genericShelfLife = GenericShelfLife(e.category)
                    /\ StatOf(key).status =
                          StatusByThreshold(StatOf(key).daysSinceLastPurchase,
                                            GenericShelfLife(e.category), 9)

\* An item bought once, of a category outside the table, 13 days ago: "Running Low".
C6_Witness ==
    /\ ShelfRendered
    /\ \E key \in Keys :
          /\ Cardinality(Purchases(key)) = 1
          /\ expenses[CHOOSE i \in Purchases(key) : TRUE].category \notin DOMAIN SHELF_LIFE_DAYS
          /\ StatOf(key).daysSinceLastPurchase = 13
          /\ StatOf(key).status = "Running Low"

-----------------------------------------------------------------------------
(* Store optimizer: what the claims speak about *)

PlanRendered == "StorePlanner" \in rendered

SeqRange(q) == {q[i] : i \in DOMAIN q}

\* The items the optimizer considers: those it lists, in either list.
ConsideredKeys == {NormName(x.name) : x \in SeqRange(plan.smartBuys) \cup SeqRange(plan.otherNeeds)}

\* The shopping list of the predictor.
ShoppingKeys == {NormName(x.name) : x \in SeqRange(ShoppingList(itemStats))}

\* C7: for the same collection and the same `now`, the optimizer considers an
\* item iff the predictor classifies it "Stock Up" or "Running Low".
C7_NeededIsShoppingList ==
    (PlanRendered /\ ShelfRendered /\ selectedStore # "") => ConsideredKeys = ShoppingKeys

\* The optimizer's set of needed items.
NeededKeys == NeededItems(ItemGroups(expenses), now)

\* The stores an item was purchased at.
StoresOf(key) == {expenses[i].store : i \in Purchases(key)}

PurchasesAt(key, st) == {i \in Purchases(key) : StoreKey(expenses[i]) = st}

\* Average price of an item at a store: sum of the amounts / number of purchases.
AvgAt(key, st) ==
    NumDivInt(NumSum([i \in DOMAIN expenses |-> Num(expenses[i].amount)], PurchasesAt(key, st)),
              Cardinality(PurchasesAt(key, st)))

StoreKeysOf(key) == {StoreKey(expenses[i]) : i \in Purchases(key)}

\* st has the global minimum average price of the item.
HasMinAvg(key, st) == \A other \in StoreKeysOf(key) : ~NumLess(AvgAt(key, other), AvgAt(key, st))

SmartBuysOf(key) == {i \in DOMAIN plan.smartBuys : NormName(plan.smartBuys[i].name) = key}
OtherNeedsOf(key) == {i \in DOMAIN plan.otherNeeds : NormName(plan.otherNeeds[i].name) = key}

\* C8: a needed item bought at one single store S is, with S selected, a smart
\* buy with reason "Exclusive" at its average price at S, and with any other
\* store selected, in other needs with avgPriceHere = 0.
C8_ExclusiveRule ==
    (PlanRendered /\ selectedStore # "") =>
        \A key \in NeededKeys :
            Cardinality(StoresOf(key)) = 1 =>
                IF StoresOf(key) = {selectedStore}
                THEN /\ Cardinality(SmartBuysOf(key)) = 1
                     /\ OtherNeedsOf(key) = {}
                     /\ \A i \in SmartBuysOf(key) :
                           /\ plan.smartBuys[i].reason = "Exclusive"
                           /\ plan.smartBuys[i].avgPriceHere = AvgAt(key, selectedStore)
                ELSE /\ Cardinality(OtherNeedsOf(key)) = 1
                     /\ SmartBuysOf(key) = {}
                     /\ \A i \in OtherNeedsOf(key) : plan.otherNeeds[i].avgPriceHere = Zero

\* Two needed items, each bought at a single store, one of them at the store
\* the user has selected.
C8_Witness ==
    /\ PlanRendered /\ selectedStore # ""
    /\ \E key \in NeededKeys :
          /\ StoresOf(key) = {selectedStore}
          /\ \E i \in SmartBuysOf(key) : plan.smartBuys[i].reason = "Exclusive"
    /\ \E key \in NeededKeys :
          /\ Cardinality(StoresOf(key)) = 1
          /\ selectedStore \notin StoresOf(key)
          /\ \E i \in OtherNeedsOf(key) : plan.otherNeeds[i].avgPriceHere = Zero

\* C9: a needed item bought at the selected store and at another store is a smart
\* buy with reason "Best Price" iff the selected store has the global minimum
\* per-store average price of the item.
C9_BestPriceRule ==
    (PlanRendered /\ selectedStore # "") =>
        \A key \in NeededKeys :
            (selectedStore \in StoresOf(key) /\ Cardinality(StoresOf(key)) >= 2) =>
                ((\E i \in SmartBuysOf(key) : plan.smartBuys[i].reason = "Best Price")
                    <=> HasMinAvg(key, selectedStore))

\* C10: a needed item bought at the selected store that is neither "Exclusive" nor
\* "Best Price" there is in other needs with cheapestStore a minimum-average
\* store and savings = avgPriceAtSelected - minAvg; a needed item never bought
\* at the selected store is in other needs with avgPriceHere = 0, cheapestStore
\* set and no savings, and is no smart buy.
C10_OtherNeedsRule ==
    (PlanRendered /\ selectedStore # "") =>
        \A key \in NeededKeys :
            IF selectedStore \in StoresOf(key)
            THEN SmartBuysOf(key) = {} =>
                    /\ Cardinality(OtherNeedsOf(key)) = 1
                    /\ \A i \in OtherNeedsOf(key) :
                          LET x == plan.otherNeeds[i]
                          IN  /\ x.cheapestStore \in StoreKeysOf(key)
                              /\ HasMinAvg(key, x.cheapestStore)
                              /\ x.avgPriceHere = AvgAt(key, selectedStore)
                              /\ x.savings = NumSub(AvgAt(key, selectedStore),
                                                    AvgAt(key, x.cheapestStore))
            ELSE /\ SmartBuysOf(key) = {}
                 /\ Cardinality(OtherNeedsOf(key)) = 1
                 /\ \A i \in OtherNeedsOf(key) :
                       LET x == plan.otherNeeds[i]
                       IN  /\ x.avgPriceHere = Zero
                           /\ x.cheapestStore \in StoreKeysOf(key)
                           /\ HasMinAvg(key, x.cheapestStore)
                           /\ "savings" \notin DOMAIN x

\* A needed item bought at the selected store for 20 and at another store for 10.
C10_Witness ==
    /\ PlanRendered /\ selectedStore # ""
    /\ \E key \in NeededKeys :
          /\ selectedStore \in StoresOf(key)
          /\ \E i \in OtherNeedsOf(key) :
                /\ plan.otherNeeds[i].savings = Num(10)
                /\ plan.otherNeeds[i].cheapestStore # selectedStore

-----------------------------------------------------------------------------
(* GlobalSearch: results.  Here the texts that are searched are kept as    *)
(* character sequences: description, category, store and the date string   *)
(* "YYYY-MM-DD"; an amount is the exact fraction itself.                   *)

\* String.prototype.includes
Includes(hay, needle) ==
    \E i \in 0..(Len(hay) - Len(needle)) : SubSeq(hay, i + 1, i + Len(needle)) = needle

\* Array.prototype.slice(0, n)
Slice(s, n) == SubSeq(s, 1, Min(n, Len(s)))

Digits == <<"0", "1", "2", "3", "4", "5", "6", "7", "8", "9">>
DigitValue(c) == (CHOOSE i \in DOMAIN Digits : Digits[i] = c) - 1

RECURSIVE ParseDigits(_)
ParseDigits(str) ==
    IF str = <<>> THEN 0
    ELSE 10 * ParseDigits(SubSeq(str, 1, Len(str) - 1)) + DigitValue(str[Len(str)])

IsLeapYear(y) == (y % 4 = 0 /\ y % 100 # 0) \/ y % 400 = 0
DaysInMonth(y, m) ==
    IF m = 2 THEN (IF IsLeapYear(y) THEN 29 ELSE 28)
    ELSE IF m \in {4, 6, 9, 11} THEN 30 ELSE 31

RECURSIVE DaysBeforeMonth(_, _)
DaysBeforeMonth(y, m) ==
    IF m = 1 THEN 0 ELSE DaysBeforeMonth(y, m - 1) + DaysInMonth(y, m - 1)

LeapYearsUpTo(y) == (y \div 4) - (y \div 100) + (y \div 400)

\* The day number (days since 1970-01-01) of a date string "YYYY-MM-DD"
DayOfDateString(str) ==
    LET y == ParseDigits(SubSeq(str, 1, 4))
        m == ParseDigits(SubSeq(str, 6, 7))
        d == ParseDigits(SubSeq(str, 9, 10))
    IN  365 * (y - 1970) + (LeapYearsUpTo(y - 1) - LeapYearsUpTo(1969))
            + DaysBeforeMonth(y, m) + (d - 1)

\* new Date(b.date).getTime()
DateStringTime(str) == GetTime(DayOfDateString(str))

\* const key = `${e.store}|${e.date}`
BillKey(e) == e.store \o <<"|">> \o e.date

\* The body of expenses.forEach: create the bill on first sight, then add
AddToBill(bills, e) ==
    LET key == BillKey(e)
        created == IF \E j \in DOMAIN bills : bills[j].k = key
                   THEN bills
                   ELSE Append(bills, [k |-> key,
                                       v |-> [store |-> e.store, date |-> e.date,
                                              total |-> Zero, count |-> 0]])
        j == CHOOSE j \in DOMAIN created : created[j].k = key
    IN  [created EXCEPT ![j].v.total = NumAdd(@, e.amount),
                        ![j].v.count = @ + 1]

RECURSIVE BillsMap(_, _, _)
BillsMap(bills, es, i) ==
    IF i > Len(es) THEN bills ELSE BillsMap(AddToBill(bills, es[i]), es, i + 1)

\* Array.from(billsMap.values()): the bills in insertion order
BillValues(es) ==
    LET m == BillsMap(<<>>, es, 1) IN [j \in DOMAIN m |-> m[j].v]

ItemMatches(e, lowerQuery) ==
    \/ Includes(ToLowerCase(e.description), lowerQuery)
    \/ Includes(ToLowerCase(e.category), lowerQuery)

ItemsUncapped(es, lowerQuery) ==
    SelectSeq(es, LAMBDA e : ItemMatches(e, lowerQuery))

\* expenses.filter(...).slice(0, 5)
Items(es, lowerQuery) ==
    Slice(SelectSeq(es, LAMBDA e : ItemMatches(e, lowerQuery)), 5)

BillMatches(b, lowerQuery) ==
    \/ Includes(ToLowerCase(b.store), lowerQuery)
    \/ Includes(b.date, lowerQuery)

SortBillsOldestFirst(bills) ==
    SortDescending(bills, [j \in DOMAIN bills |-> -DateStringTime(bills[j].date)])

\* .sort((a, b) => new Date(b.date).getTime() - new Date(a.date).getTime())
SortBills(bills) ==
    SortDescending(bills, [j \in DOMAIN bills |-> DateStringTime(bills[j].date)])

FilterBillsWithMatchedItems(bills, es, lowerQuery) ==
    SelectSeq(bills, LAMBDA b :
        \/ BillMatches(b, lowerQuery)
        \/ \E i \in DOMAIN es :
              /\ es[i].store = b.store
              /\ es[i].date = b.date
              /\ ItemMatches(es[i], lowerQuery))

\* Array.from(billsMap.values()).filter(b => ...)
FilterBills(bills, es, lowerQuery) ==
    SelectSeq(bills, LAMBDA b : BillMatches(b, lowerQuery))

\* The bills of the result: filter, sort, slice(0, 3)
Bills(es, lowerQuery) ==
    Slice(SortBills(FilterBills(BillValues(es), es, lowerQuery)), 3)

\* GlobalSearch.results
Results(es, q) ==
    IF Trim(q) = <<>> THEN [bills |-> <<>>, items |-> <<>>]
    ELSE LET lowerQuery == ToLowerCase(q)
         IN  [bills |-> Bills(es, lowerQuery), items |-> Items(es, lowerQuery)]

-----------------------------------------------------------------------------
(* Inputs of the search *)

MaxSearchExpenses == 6

SearchExpense(desc, c, st, d, a) ==
    [id |-> 0, description |-> desc, amount |-> Num(a), date |-> d,
     category |-> c, store |-> st, payer |-> "Me", owner |-> "Shared"]

SearchCatalogue ==
    <<
      SearchExpense(<<"O", "r", "g", "a", "n", "i", "c", " ", "M", "i", "l", "k">>,
                    <<"D", "a", "i", "r", "y", " ", "&", " ", "E", "g", "g", "s">>,
                    <<"X">>, <<"2", "0", "2", "3", "-", "1", "0", "-", "2", "6">>, 3),
      SearchExpense(<<"E", "g", "g", "s">>,
                    <<"D", "a", "i", "r", "y", " ", "&", " ", "E", "g", "g", "s">>,
                    <<"X">>, <<"2", "0", "2", "3", "-", "1", "0", "-", "2", "6">>, 2),
      SearchExpense(<<"M", "i", "l", "k">>,
                    <<"D", "a", "i", "r", "y", " ", "&", " ", "E", "g", "g", "s">>,
                    <<"M", "i", "l", "k", "y", " ", "W", "a", "y">>, <<"2", "0", "2", "3", "-", "1", "0", "-", "2", "7">>, 1),
      SearchExpense(<<"O", "a", "t", " ", "M", "i", "l", "k">>,
                    <<"P", "a", "n", "t", "r", "y", " ", "&", " ", "D", "r", "y", " ", "G", "o", "o", "d", "s">>,
                    <<"Y">>, <<"2", "0", "2", "3", "-", "1", "1", "-", "0", "2">>, 4),
      SearchExpense(<<"M", "i", "l", "k">>,
                    <<"D", "a", "i", "r", "y", " ", "&", " ", "E", "g", "g", "s">>,
                    <<"X">>, <<"2", "0", "2", "3", "-", "0", "9", "-", "3", "0">>, 1),
      SearchExpense(<<"m", "i", "l", "k">>,
                    <<"D", "a", "i", "r", "y", " ", "&", " ", "E", "g", "g", "s">>,
                    <<"Y">>, <<"2", "0", "2", "3", "-", "1", "0", "-", "2", "7">>, 2),
      SearchExpense(<<"B", "r", "e", "a", "d">>,
                    <<"B", "a", "k", "e", "r", "y">>,
                    <<"M", "i", "l", "k", "y", " ", "W", "a", "y">>, <<"2", "0", "2", "3", "-", "1", "1", "-", "0", "2">>, 5)
    >>

SearchQueries ==
    {<<>>,
     <<" ">>,
     <<"m", "i", "l", "k">>,
     <<"M", "i", "l", "k">>,
     <<" ", "m">>,
     <<"i">>,
     <<"2", "0", "2", "3">>,
     <<"1", "0", "-", "2">>,
     <<"x">>,
     <<"d", "a", "i", "r", "y">>}

RECURSIVE Pick(_, _, _)
Pick(catalogue, S, i) ==
    IF i > Len(catalogue) THEN <<>>
    ELSE (IF i \in S THEN <<catalogue[i]>> ELSE <<>>) \o Pick(catalogue, S, i + 1)

Reverse(s) == [i \in DOMAIN s |-> s[Len(s) + 1 - i]]

\* Collections drawn from the catalogue, in its order or in the opposite one
SearchCollections ==
    {Pick(catalogue, S, 1) :
        S \in {U \in SUBSET (1..Len(SearchCatalogue)) : Cardinality(U) <= MaxSearchExpenses},
        catalogue \in {SearchCatalogue, Reverse(SearchCatalogue)}}

InitSearch ==
    /\ people = <<"Me", "Partner">>
    /\ expenses \in SearchCollections
    /\ now = 0
    /\ selectedStore = ""
    /\ stats = NoStats
    /\ itemStats = NoItemStats
    /\ plan = NoPlan
    /\ rendered = {}
    /\ InitAroundAnalytics

\* The user types: onChange sets the query and the memo is recomputed.
ChangeQuery(q) ==
    /\ selectedItem = None
    /\ selectedBill = None
    /\ q # query
    /\ query' = q
    /\ results' = Results(expenses, q)
    /\ UNCHANGED <<people, expenses, viewVars, appVars, formVars>>

\* handleItemClick: the item is handed to App.setSelectedItem, the query is cleared.
HandleItemClick(i) ==
    /\ selectedItem = None
    /\ selectedBill = None
    /\ i \in DOMAIN results.items
    /\ selectedItem' = Some(results.items[i])
    /\ query' = <<>>
    /\ results' = Results(expenses, <<>>)
    /\ UNCHANGED <<people, expenses, viewVars, formVars>>
    /\ UNCHANGED <<storage, mounted, analysis, isAnalyzing, analyzeInFlight, selectedBill, uuids, activeTab>>

\* handleBillClick: the bill is handed to App.setSelectedBill, the query is cleared.
HandleBillClick(j) ==
    /\ selectedItem = None
    /\ selectedBill = None
    /\ j \in DOMAIN results.bills
    /\ selectedBill' = Some([store |-> results.bills[j].store, date |-> results.bills[j].date])
    /\ query' = <<>>
    /\ results' = Results(expenses, <<>>)
    /\ UNCHANGED <<people, expenses, viewVars, formVars>>
    /\ UNCHANGED <<storage, mounted, analysis, isAnalyzing, analyzeInFlight, selectedItem, uuids, activeTab>>

\* ItemDetailModal onClose: setSelectedItem(null)
CloseItemModal ==
    /\ selectedItem # None
    /\ selectedItem' = None
    /\ UNCHANGED <<people, expenses, viewVars, searchVars, formVars>>
    /\ UNCHANGED <<storage, mounted, analysis, isAnalyzing, analyzeInFlight, selectedBill, uuids, activeTab>>

\* BillDetailModal onClose: setSelectedBill(null)
CloseBillModal ==
    /\ selectedBill # None
    /\ selectedBill' = None
    /\ UNCHANGED <<people, expenses, viewVars, searchVars, formVars>>
    /\ UNCHANGED <<storage, mounted, analysis, isAnalyzing, analyzeInFlight, selectedItem, uuids, activeTab>>

NextSearch ==
    \/ \E q \in SearchQueries : ChangeQuery(q)
    \/ \E i \in 1..5 : HandleItemClick(i)
    \/ \E j \in 1..3 : HandleBillClick(j)
    \/ CloseItemModal
    \/ CloseBillModal

SpecSearch == InitSearch /\ [][NextSearch]_vars

-----------------------------------------------------------------------------
(* Search: what the claims speak about *)

\* `text` contains `q`, letter case ignored
ContainsIgnoringCase(text, q) ==
    \E k \in 0..(Len(text) - Len(q)) :
        \A j \in 1..Len(q) : LowerChar(text[k + j]) = LowerChar(q[j])

\* `text` contains `q` literally
ContainsLiterally(text, q) ==
    \E k \in 0..(Len(text) - Len(q)) : \A j \in 1..Len(q) : text[k + j] = q[j]

Blank(q) == \A i \in DOMAIN q : q[i] = " "

\* The positions of the expenses of the bill (st, d), their number and their sum
BillPositions(st, d) == {i \in DOMAIN expenses : expenses[i].store = st /\ expenses[i].date = d}
BillAggregate(st, d) ==
    [store |-> st, date |-> d,
     total |-> NumSum([i \in DOMAIN expenses |-> expenses[i].amount], BillPositions(st, d)),
     count |-> Cardinality(BillPositions(st, d))]

\* The (store, date) pairs of the collection
BillPairs == {<<expenses[i].store, expenses[i].date>> : i \in DOMAIN expenses}
PairOf(b) == <<b.store, b.date>>
ReturnedPairs == {PairOf(results.bills[j]) : j \in DOMAIN results.bills}

BillFound(st, d) == <<st, d>> \in ReturnedPairs

\* The query is found in the store name (case ignored) or in the date string
QueryHitsBill(st, d) == ContainsIgnoringCase(st, query) \/ ContainsLiterally(d, query)

\* C11 as stated: whenever the query matches an item by its description, that
\* item is an item match and the bill of its (store, date) pair is a bill match
\* aggregating all expenses of the pair, also when the query occurs neither in
\* the store name nor in the date.
C11_BillOfMatchedItem ==
    \A i \in DOMAIN results.items :
        LET e == results.items[i]
        IN  ContainsIgnoringCase(e.description, query) =>
               \E j \in DOMAIN results.bills :
                   results.bills[j] = BillAggregate(e.store, e.date)

\* C11 amended: an item matched by its description is returned as an item
\* match, but the bill of its (store, date) pair is a bill match only if the
\* query also occurs in the store name or in the date; when it is returned it
\* aggregates all expenses of the pair.  "milk" against "Organic Milk" at "X"
\* on 2023-10-26 gives the item and no bill.
C11_BillOnlyByStoreOrDate ==
    \A i \in DOMAIN results.items :
        LET e == results.items[i]
        IN  /\ \E k \in DOMAIN expenses : expenses[k] = e
            /\ BillFound(e.store, e.date) =>
                  /\ QueryHitsBill(e.store, e.date)
                  /\ \E j \in DOMAIN results.bills :
                         results.bills[j] = BillAggregate(e.store, e.date)
            /\ ~QueryHitsBill(e.store, e.date) => ~BillFound(e.store, e.date)

OrganicMilk == <<"O", "r", "g", "a", "n", "i", "c", " ", "M", "i", "l", "k">>

\* The example: "milk" finds "Organic Milk" bought at "X", and no bill.
C11_Witness ==
    /\ query = <<"m", "i", "l", "k">>
    /\ \E i \in DOMAIN results.items :
          /\ results.items[i].description = OrganicMilk
          /\ results.items[i].store = <<"X">>
    /\ ~BillFound(<<"X">>, <<"2", "0", "2", "3", "-", "1", "0", "-", "2", "6">>)
    /\ Cardinality(BillPositions(<<"X">>, <<"2", "0", "2", "3", "-", "1", "0", "-", "2", "6">>)) = 2

\* The positions of the expenses that match the query by description or category
MatchingPositions ==
    {i \in DOMAIN expenses :
        \/ ContainsIgnoringCase(expenses[i].description, query)
        \/ ContainsIgnoringCase(expenses[i].category, query)}
MatchesBefore(i) == Cardinality({j \in MatchingPositions : j < i})

\* C12: for a non-blank query the item matches are exactly the first at most 5
\* expenses, in collection order, whose description or category contains the
\* query with case ignored; a blank query yields no item and no bill match.
C12_ItemMatches ==
    IF Blank(query)
    THEN results.items = <<>> /\ results.bills = <<>>
    ELSE /\ Len(results.items) = Min(5, Cardinality(MatchingPositions))
         /\ \A i \in MatchingPositions :
               MatchesBefore(i) < 5 => results.items[MatchesBefore(i) + 1] = expenses[i]

\* Six expenses match and five are returned.
C12_Witness ==
    /\ ~Blank(query)
    /\ Cardinality(MatchingPositions) > 5
    /\ Len(results.items) = 5
    /\ \E i \in MatchingPositions : \A j \in DOMAIN results.items : results.items[j] # expenses[i]

YearOf(d) == ParseDigits(SubSeq(d, 1, 4))
MonthOf(d) == ParseDigits(SubSeq(d, 6, 7))
DayOfMonthOf(d) == ParseDigits(SubSeq(d, 9, 10))

\* Calendar date d1 is strictly before calendar date d2
DateBefore(d1, d2) ==
    \/ YearOf(d1) < YearOf(d2)
    \/ YearOf(d1) = YearOf(d2) /\ MonthOf(d1) < MonthOf(d2)
    \/ YearOf(d1) = YearOf(d2) /\ MonthOf(d1) = MonthOf(d2) /\ DayOfMonthOf(d1) < DayOfMonthOf(d2)

MatchingPairs == {p \in BillPairs : QueryHitsBill(p[1], p[2])}

\* C13: one bill per (store, date) pair with total = sum and count = number of
\* its expenses; the bill matches are the at most 3 newest bills among those
\* whose store name contains the query (case ignored) or whose date string
\* contains it, newest first.
C13_BillMatches ==
    ~Blank(query) =>
        /\ Len(results.bills) = Min(3, Cardinality(MatchingPairs))
        /\ Cardinality(ReturnedPairs) = Len(results.bills)
        /\ \A j \in DOMAIN results.bills :
              /\ PairOf(results.bills[j]) \in MatchingPairs
              /\ results.bills[j] = BillAggregate(results.bills[j].store, results.bills[j].date)
        /\ \A j, k \in DOMAIN results.bills :
              j < k => ~DateBefore(results.bills[j].date, results.bills[k].date)
        /\ \A p \in MatchingPairs \ ReturnedPairs :
              \A j \in DOMAIN results.bills : ~DateBefore(results.bills[j].date, p[2])

\* More than three bills match; the three returned are not in collection order
\* and a bill of two expenses is among them.
C13_Witness ==
    /\ ~Blank(query)
    /\ Cardinality(MatchingPairs) > 3
    /\ Len(results.bills) = 3
    /\ \E j \in DOMAIN results.bills : results.bills[j].count = 2
    /\ \E i, k \in DOMAIN expenses :
          /\ i < k
          /\ DateBefore(expenses[i].date, expenses[k].date)
          /\ BillFound(expenses[i].store, expenses[i].date)
          /\ BillFound(expenses[k].store, expenses[k].date)

-----------------------------------------------------------------------------
(* App and ExpenseForm: the handlers' pure parts.  Amounts are exact        *)
(* fractions of the currency unit; an id is a pair <<kind, number>>.        *)

\* x * y, for finite x and y
NumMul(x, y) == Fin(x.n * y.n, x.d * y.d)

\* x / y, for finite x and y
NumDiv(x, y) ==
    IF y.n > 0 THEN Fin(x.n * y.d, x.d * y.n)
    ELSE IF y.n < 0 THEN Fin(-(x.n * y.d), x.d * (-y.n))
    ELSE IF x.n > 0 THEN Infinity
    ELSE IF x.n < 0 THEN NegInfinity
    ELSE NaN

\* Math.max(0, x)
MaxWithZero(x) ==
    IF x.k = "nan" THEN NaN ELSE IF NumLess(x, Zero) THEN Zero ELSE x

\* parseFloat(x.toFixed(2)) for a finite x: the magnitude is rounded to whole
\* hundredths, a tie going to the larger magnitude
ParseFloatToFixed2(x) ==
    LET cents == (2 * 100 * Abs(x.n) + x.d) \div (2 * x.d)
    IN  Fin(IF x.n < 0 THEN -cents ELSE cents, 100)

IsDigit(c) == \E i \in DOMAIN Digits : Digits[i] = c

\* The longest prefix of digits
RECURSIVE DigitPrefix(_)
DigitPrefix(str) ==
    IF str # <<>> /\ IsDigit(Head(str)) THEN <<Head(str)>> \o DigitPrefix(Tail(str)) ELSE <<>>

RECURSIVE PowerOfTen(_)
PowerOfTen(n) == IF n = 0 THEN 1 ELSE 10 * PowerOfTen(n - 1)

\* parseFloat of a decimal literal without exponent: leading blanks, a sign,
\* digits, a fraction; NaN when no digit is found
ParseFloat(text) ==
    LET t == TrimStart(text)
        signed == t # <<>> /\ Head(t) \in {"-", "+"}
        u == IF signed THEN Tail(t) ELSE t
        whole == DigitPrefix(u)
        rest == SubSeq(u, Len(whole) + 1, Len(u))
        fraction == IF rest # <<>> /\ Head(rest) = "." THEN DigitPrefix(Tail(rest)) ELSE <<>>
        magnitude == Fin(ParseDigits(whole) * PowerOfTen(Len(fraction)) + ParseDigits(fraction),
                         PowerOfTen(Len(fraction)))
    IN  IF whole = <<>> /\ fraction = <<>> THEN NaN
        ELSE IF signed /\ Head(t) = "-" THEN NumNeg(magnitude)
        ELSE magnitude

\* parseFloat(text) || 0
ParseFloatOrZero(text) ==
    LET v == ParseFloat(text) IN IF v.k = "nan" \/ v = Zero THEN Zero ELSE v

\* { ...e, ...updates }
Merge(e, updates) ==
    [f \in DOMAIN e \cup DOMAIN updates |-> IF f \in DOMAIN updates THEN updates[f] ELSE e[f]]

\* The n-th value handed out by crypto.randomUUID()
RandomUUID(n) == <<"uuid", n>>

\* people.length > 1 ? 'Shared' : 'Me'
DefaultOwner(ps) == IF Len(ps) > 1 THEN "Shared" ELSE "Me"

\* people.length > 1 ? 'shared' : 'personal'
DefaultBillType(ps) == IF Len(ps) > 1 THEN "shared" ELSE "personal"

\* cycle.indexOf(owner), counted from 0, -1 when absent
IndexOf(cycle, owner) ==
    IF \E i \in DOMAIN cycle : cycle[i] = owner
    THEN (CHOOSE i \in DOMAIN cycle : cycle[i] = owner /\ \A j \in 1..(i - 1) : cycle[j] # owner) - 1
    ELSE -1

NextOwnerOverRoster(owner, ps) ==
    LET cycle == <<"Shared">> \o Roster
    IN  cycle[((IndexOf(cycle, owner) + 1) % Len(cycle)) + 1]

\* const cycle = ['Shared', ...people]; cycle[(cycle.indexOf(owner) + 1) % cycle.length]
NextOwner(owner, ps) ==
    LET cycle == <<"Shared">> \o ps
    IN  cycle[((IndexOf(cycle, owner) + 1) % Len(cycle)) + 1]

\* JSON.stringify of a number: a non-finite number becomes null
JsonNumber(x) == IF IsFinite(x) THEN x ELSE None

NumberFields == {"amount", "originalAmount"}

\* JSON.stringify of one expense
JsonObject(e) ==
    [f \in DOMAIN e |-> IF f \in NumberFields THEN JsonNumber(e[f]) ELSE e[f]]

\* JSON.stringify(expenses): a well-formed text holding the array
Stringify(es) == [wellFormed |-> TRUE, array |-> [i \in DOMAIN es |-> JsonObject(es[i])]]

\* A stored text that JSON.parse rejects
CorruptText == [wellFormed |-> FALSE, array |-> <<>>]

SaveEffectSkippingEmpty(es, stored) ==
    IF Len(es) > 0 THEN Some(Stringify(es)) ELSE stored

\* if (expenses.length > 0 || localStorage.getItem(STORAGE_KEY)) setItem(KEY, JSON.stringify(expenses))
SaveEffect(es, stored) ==
    IF Len(es) > 0 \/ stored # None THEN Some(Stringify(es)) ELSE stored

\* const saved = getItem(KEY); if (saved) try { setExpenses(JSON.parse(saved)) } catch { log }
LoadEffect(es, stored) ==
    IF stored # None /\ stored.value.wellFormed THEN stored.value.array ELSE es

WithIdsOfRow(newExpenses, n) ==
    [i \in DOMAIN newExpenses |-> Merge(newExpenses[i], [id |-> RandomUUID(i)])]

\* newExpenses.map(e => ({ ...e, id: crypto.randomUUID() })), n ids having been handed out
WithIds(newExpenses, n) ==
    [i \in DOMAIN newExpenses |-> Merge(newExpenses[i], [id |-> RandomUUID(n + i)])]

\* The tempId of the i-th row of a review: crypto.randomUUID() again, but a
\* tempId is only ever compared with the tempIds of the same review, so the
\* row number stands for it
TempId(i) == <<"temp", i>>

\* items.map(item => ({ ...item, tempId: crypto.randomUUID(), owner: ... }))
WithTempIds(items, ps) ==
    [i \in DOMAIN items |->
        Merge(items[i], [tempId |-> TempId(i), owner |-> DefaultOwner(ps)])]

\* prev.map(e => e.id === id ? { ...e, ...updates } : e)
UpdateExpense(es, id, updates) ==
    [i \in DOMAIN es |-> IF es[i].id = id THEN Merge(es[i], updates) ELSE es[i]]

BulkUpdateByStore(es, st, d, updates) ==
    [i \in DOMAIN es |-> IF es[i].store = st THEN Merge(es[i], updates) ELSE es[i]]

\* prev.map(e => e.store === store && e.date === date ? { ...e, ...updates } : e)
BulkUpdate(es, st, d, updates) ==
    [i \in DOMAIN es |->
        IF es[i].store = st /\ es[i].date = d THEN Merge(es[i], updates) ELSE es[i]]

\* prev.filter(e => e.id !== id)
DeleteExpense(es, id) == SelectSeq(es, LAMBDA e : e.id # id)

\* pendingItems.reduce((sum, item) => sum + item.amount, 0)
RECURSIVE TotalBillAmount(_)
TotalBillAmount(items) ==
    IF items = <<>> THEN Zero
    ELSE NumAdd(TotalBillAmount(SubSeq(items, 1, Len(items) - 1)), items[Len(items)].amount)

FinalAmountUnclamped(item, discountVal, total) ==
    IF NumLess(Zero, discountVal) /\ NumLess(Zero, total)
    THEN NumSub(item.amount, NumMul(discountVal, NumDiv(item.amount, total)))
    ELSE item.amount

\* finalAmount: the item's amount less its share of the coupon, not below 0
FinalAmount(item, discountVal, total) ==
    IF NumLess(Zero, discountVal) /\ NumLess(Zero, total)
    THEN MaxWithZero(NumSub(item.amount, NumMul(discountVal, NumDiv(item.amount, total))))
    ELSE item.amount

\* finalExpenses of handleFinalSave
FinalExpenses(items, discountText, type, payerName) ==
    LET discountVal == ParseFloatOrZero(discountText)
        total == TotalBillAmount(items)
        finalPayer == IF type = "personal" THEN "Me" ELSE payerName
    IN  [i \in DOMAIN items |->
            [description |-> items[i].description,
             amount |-> ParseFloatToFixed2(FinalAmount(items[i], discountVal, total)),
             originalAmount |-> items[i].amount,
             date |-> items[i].date,
             category |-> items[i].category,
             store |-> items[i].store,
             payer |-> finalPayer,
             owner |-> IF type = "personal" THEN "Me" ELSE items[i].owner]]

-----------------------------------------------------------------------------
(* App and ExpenseForm: data and inputs *)

MaxAppExpenses == 2
MaxUuids == 2
MaxParses == 1

DemoExpense(n, d, desc, cents, c, st, p, o) ==
    [id |-> <<"demo", n>>, date |-> d, description |-> desc, amount |-> Fin(cents, 100),
     category |-> c, store |-> st, payer |-> p, owner |-> o]

\* generateDummyData()
DummyData ==
    <<
      DemoExpense(1, <<"2", "0", "2", "3", "-", "1", "0", "-", "2", "5">>,
                  <<"F", "r", "e", "s", "h", " ", "S", "p", "i", "n", "a", "c", "h">>, 350,
                  <<"V", "e", "g", "e", "t", "a", "b", "l", "e", "s">>,
                  <<"W", "h", "o", "l", "e", " ", "F", "o", "o", "d", "s">>, "Me", "Shared"),
      DemoExpense(2, <<"2", "0", "2", "3", "-", "1", "0", "-", "2", "5">>,
                  <<"R", "i", "b", "e", "y", "e", " ", "S", "t", "e", "a", "k", "s">>, 2420,
                  <<"M", "e", "a", "t", " ", "&", " ", "S", "e", "a", "f", "o", "o", "d">>,
                  <<"W", "h", "o", "l", "e", " ", "F", "o", "o", "d", "s">>, "Me", "Shared"),
      DemoExpense(3, <<"2", "0", "2", "3", "-", "1", "0", "-", "2", "5">>,
                  <<"V", "e", "g", "a", "n", " ", "C", "o", "o", "k", "i", "e", "s">>, 550,
                  <<"B", "a", "k", "e", "r", "y">>,
                  <<"W", "h", "o", "l", "e", " ", "F", "o", "o", "d", "s">>, "Me", "Partner"),
      DemoExpense(4, <<"2", "0", "2", "3", "-", "1", "0", "-", "2", "6">>,
                  <<"O", "r", "g", "a", "n", "i", "c", " ", "M", "i", "l", "k">>, 599,
                  <<"D", "a", "i", "r", "y", " ", "&", " ", "E", "g", "g", "s">>,
                  <<"T", "r", "a", "d", "e", "r", " ", "J", "o", "e", "s">>, "Partner", "Shared"),
      DemoExpense(5, <<"2", "0", "2", "3", "-", "1", "0", "-", "2", "6">>,
                  <<"O", "l", "i", "v", "e", " ", "O", "i", "l">>, 899,
                  <<"P", "a", "n", "t", "r", "y", " ", "&", " ", "D", "r", "y", " ", "G", "o", "o", "d", "s">>,
                  <<"T", "r", "a", "d", "e", "r", " ", "J", "o", "e", "s">>, "Partner", "Shared"),
      DemoExpense(6, <<"2", "0", "2", "3", "-", "1", "0", "-", "2", "7">>,
                  <<"P", "r", "o", "t", "e", "i", "n", " ", "P", "o", "w", "d", "e", "r">>, 4500,
                  <<"P", "e", "r", "s", "o", "n", "a", "l", " ", "C", "a", "r", "e", " ", "&", " ", "P", "h", "a", "r", "m", "a", "c", "y">>,
                  <<"G", "N", "C">>, "Me", "Me"),
      DemoExpense(7, <<"2", "0", "2", "3", "-", "1", "0", "-", "2", "8">>,
                  <<"P", "o", "t", "a", "t", "o", " ", "C", "h", "i", "p", "s">>, 450,
                  <<"S", "n", "a", "c", "k", "s", " ", "&", " ", "C", "a", "n", "d", "y">>,
                  <<"7", "-", "E", "l", "e", "v", "e", "n">>, "Partner", "Shared"),
      DemoExpense(8, <<"2", "0", "2", "3", "-", "1", "0", "-", "2", "8">>,
                  <<"L", "a", "u", "n", "d", "r", "y", " ", "D", "e", "t", "e", "r", "g", "e", "n", "t">>, 1499,
                  <<"H", "o", "u", "s", "e", "h", "o", "l", "d", " ", "&", " ", "C", "l", "e", "a", "n", "i", "n", "g">>,
                  <<"T", "a", "r", "g", "e", "t">>, "Me", "Shared"),
      DemoExpense(9, <<"2", "0", "2", "3", "-", "1", "0", "-", "2", "9">>,
                  <<"C", "a", "t", " ", "F", "o", "o", "d", " ", "(", "1", "2", " ", "p", "a", "c", "k", ")">>, 1850,
                  <<"P", "e", "t", " ", "S", "u", "p", "p", "l", "i", "e", "s">>,
                  <<"P", "e", "t", "S", "m", "a", "r", "t">>, "Me", "Shared"),
      DemoExpense(10, <<"2", "0", "2", "3", "-", "1", "0", "-", "2", "9">>,
                  <<"F", "r", "o", "z", "e", "n", " ", "P", "i", "z", "z", "a">>, 899,
                  <<"F", "r", "o", "z", "e", "n", " ", "F", "o", "o", "d", "s">>,
                  <<"C", "o", "s", "t", "c", "o">>, "Partner", "Shared"),
      DemoExpense(11, <<"2", "0", "2", "3", "-", "1", "0", "-", "3", "0">>,
                  <<"C", "a", "b", "e", "r", "n", "e", "t", " ", "S", "a", "u", "v", "i", "g", "n", "o", "n">>, 1200,
                  <<"A", "l", "c", "o", "h", "o", "l">>,
                  <<"C", "o", "s", "t", "c", "o">>, "Partner", "Shared"),
      DemoExpense(12, <<"2", "0", "2", "3", "-", "1", "0", "-", "3", "0">>,
                  <<"R", "o", "t", "i", "s", "s", "e", "r", "i", "e", " ", "C", "h", "i", "c", "k", "e", "n">>, 499,
                  <<"D", "e", "l", "i", " ", "&", " ", "P", "r", "e", "p", "a", "r", "e", "d">>,
                  <<"C", "o", "s", "t", "c", "o">>, "Partner", "Shared")
    >>

\* The collection loadDemoData sets, cut to the last expense of the twelve
DemoData == SubSeq(DummyData, Len(DummyData), Len(DummyData))

\* What localStorage may hold under the key when the page is opened: nothing,
\* an empty collection, a text that does not parse, the demo collection
InitialStorage ==
    {None, Some(Stringify(<<>>)), Some(CorruptText), Some(Stringify(DemoData))}

\* The fields of the manual entry form as they are submitted
ManualDescriptions == { <<"M", "i", "l", "k">> }
ManualAmountTexts == { <<>>, <<"5">>, <<"-", "5">> }
UsualAmountTexts == { <<>>, <<"5">> }
ManualDates == { <<"2", "0", "2", "3", "-", "1", "0", "-", "2", "9">> }
ManualStores == { <<"C", "o", "s", "t", "c", "o">> }

\* Category.Pantry, the initial value of the category select
CategoryPantry == <<"P", "a", "n", "t", "r", "y", " ", "&", " ", "D", "r", "y", " ", "G", "o", "o", "d", "s">>

\* What the review inputs are changed to
ReviewAmountTexts == { <<>> }
CouponTexts == { <<>>, <<"5">> }

\* The names typed into the quick-add field, and the participants they spell
NewPersonNames == { <<" ", "G", "u", "e", "s", "t">>, <<"M", "e">>, <<" ">> }
Spelling == [n \in Range(Roster) |->
                IF n = "Me" THEN <<"M", "e">>
                ELSE IF n = "Partner" THEN <<"P", "a", "r", "t", "n", "e", "r">>
                ELSE IF n = "Guest" THEN <<"G", "u", "e", "s", "t">>
                ELSE <<"K", "i", "d">>]
NameSpelled(text) == CHOOSE n \in Range(Roster) : Spelling[n] = text

\* What is typed into an item's name field in the detail modals
ModalDescriptions == { <<"O", "a", "t">> }

\* The queries by which the user finds an item or a bill
AppQueries == { <<"o">> }

ScannedItem(desc, a) ==
    [description |-> desc, amount |-> a, date |-> <<"2", "0", "2", "3", "-", "1", "0", "-", "3", "0">>,
     store |-> <<"C", "o", "s", "t", "c", "o">>, category |-> CategoryPantry]

\* What the receipt service answers: it throws, it answers without text, or
\* its text is the JSON of a result
ReceiptResponses ==
    {[kind |-> "throws"],
     [kind |-> "noText"],
     [kind |-> "text", json |-> [items |-> <<>>, totalDiscount |-> Zero]],
     [kind |-> "text",
      json |-> [items |-> <<ScannedItem(<<"O", "a", "t">>, Num(5)), ScannedItem(<<"T", "e", "a">>, Num(5))>>,
                totalDiscount |-> Num(5)]]}

ParseReceiptPartial(response) ==
    IF response.kind = "text"
    THEN [rejected |-> FALSE, value |-> response.json]
    ELSE [rejected |-> FALSE,
          value |-> [items |-> <<ScannedItem(<<"O", "a", "t">>, Num(5))>>, totalDiscount |-> Zero]]

\* parseReceipt: resolves with the parsed text or rejects
ParseReceipt(response) ==
    IF response.kind = "text"
    THEN [rejected |-> FALSE, value |-> response.json]
    ELSE [rejected |-> TRUE]

RECURSIVE NatToString(_)
NatToString(n) ==
    IF n < 10 THEN <<Digits[n + 1]>> ELSE NatToString(n \div 10) \o <<Digits[(n % 10) + 1]>>

RECURSIVE PadZeros(_, _)
PadZeros(str, k) == IF Len(str) >= k THEN str ELSE PadZeros(<<"0">> \o str, k)

\* Number.prototype.toString of a finite decimal fraction
NumberToString(x) ==
    LET k == CHOOSE j \in 0..6 :
                 /\ (Abs(x.n) * PowerOfTen(j)) % x.d = 0
                 /\ \A i \in 0..(j - 1) : (Abs(x.n) * PowerOfTen(i)) % x.d # 0
        scaled == (Abs(x.n) * PowerOfTen(k)) \div x.d
        whole == NatToString(scaled \div PowerOfTen(k))
        fraction == IF k = 0 THEN <<>>
                    ELSE <<".">> \o PadZeros(NatToString(scaled % PowerOfTen(k)), k)
    IN  (IF x.n < 0 THEN <<"-">> ELSE <<>>) \o whole \o fraction

-----------------------------------------------------------------------------
(* App and ExpenseForm: the steps *)

NoModal == selectedItem = None /\ selectedBill = None

\* setExpenses(es) and what the render after it does: the save effect runs
\* and GlobalSearch recomputes its memo.
SetExpenses(es) ==
    /\ expenses' = es
    /\ storage' = SaveEffect(es, storage)
    /\ results' = Results(es, query)
    /\ UNCHANGED query

InitApp ==
    /\ people = <<"Me", "Partner">>
    /\ expenses = <<>>
    /\ now = 0
    /\ selectedStore = ""
    /\ stats = NoStats
    /\ itemStats = NoItemStats
    /\ plan = NoPlan
    /\ rendered = {}
    /\ InitGlobalSearch
    /\ InitAppState
    /\ InitExpenseForm
    /\ storage \in InitialStorage
    /\ mounted = FALSE

\* The first commit: the load effect reads the key, the save effect runs for
\* the still empty collection, and the render caused by the load saves again.
Mount ==
    /\ ~mounted
    /\ mounted' = TRUE
    /\ LET loaded == LoadEffect(expenses, storage)
       IN  /\ expenses' = loaded
           /\ storage' = SaveEffect(loaded, SaveEffect(expenses, storage))
           /\ results' = Results(loaded, query)
    /\ UNCHANGED <<people, viewVars, query, formVars>>
    /\ UNCHANGED <<analysis, isAnalyzing, analyzeInFlight, selectedItem, selectedBill, uuids, activeTab>>

\* loadDemoData, offered while the collection is empty
LoadDemoData ==
    /\ mounted /\ NoModal
    /\ Len(expenses) = 0
    /\ SetExpenses(DemoData)
    /\ analysis' = None
    /\ UNCHANGED <<people, viewVars, formVars>>
    /\ UNCHANGED <<mounted, isAnalyzing, analyzeInFlight, selectedItem, selectedBill, uuids, activeTab>>

\* initializeReview(items)
InitializeReview(items, ps) ==
    /\ pendingItems' = items
    /\ billType' = DefaultBillType(ps)
    /\ payer' = "Me"
    /\ mode' = "review"

\* handleManualAdd: the form is submitted with these field values
HandleManualAdd(desc, amountText, d, st) ==
    /\ mounted /\ NoModal
    /\ mode = "input"
    /\ desc # <<>> /\ amountText # <<>> /\ d # <<>> /\ st # <<>>
    /\ InitializeReview(<<[tempId |-> TempId(1),
                           description |-> desc,
                           amount |-> ParseFloat(amountText),
                           date |-> d,
                           category |-> CategoryPantry,
                           store |-> st,
                           owner |-> DefaultOwner(people)]>>, people)
    /\ UNCHANGED <<people, expenses, viewVars, searchVars>>
    /\ UNCHANGED appVars
    /\ UNCHANGED <<globalDiscount, isScanning, parseInFlight, notice>>

\* handleFileSelect: a picture is chosen.  isScanning is set and, the read
\* being only started, reset by the finally block of the same run; the parse
\* is under way, and the service will give it this answer.
HandleFileSelect(response) ==
    /\ mounted /\ NoModal
    /\ mode = "input"
    /\ ~isScanning
    /\ Len(parseInFlight) < MaxParses
    /\ parseInFlight' = Append(parseInFlight, response)
    /\ isScanning' = FALSE
    /\ UNCHANGED <<people, expenses, viewVars, searchVars, appVars>>
    /\ UNCHANGED <<mode, pendingItems, payer, globalDiscount, billType, notice>>

\* s without its i-th element
RemoveAt(s, i) == SubSeq(s, 1, i - 1) \o SubSeq(s, i + 1, Len(s))

\* alert(...) of the catch block
CouldNotExtract == "Could not extract data from the image. Please try again or enter manually."

\* reader.onloadend after the i-th parseReceipt call under way has settled
ParseReceiptResponds(i) ==
    /\ i \in DOMAIN parseInFlight
    /\ parseInFlight' = RemoveAt(parseInFlight, i)
    /\ LET result == ParseReceipt(parseInFlight[i])
       IN  /\ notice' = IF result.rejected THEN CouldNotExtract ELSE ""
           /\ IF ~result.rejected /\ Len(result.value.items) > 0
              THEN /\ globalDiscount' = IF result.value.totalDiscount # Zero
                                        THEN NumberToString(result.value.totalDiscount)
                                        ELSE globalDiscount
                   /\ InitializeReview(WithTempIds(result.value.items, people), people)
              ELSE UNCHANGED <<globalDiscount, pendingItems, billType, payer, mode>>
    /\ UNCHANGED <<people, expenses, viewVars, searchVars, appVars>>
    /\ UNCHANGED isScanning


\* updateItem(tempId, updates)
UpdateItem(tempId, updates) ==
    /\ mounted /\ NoModal
    /\ mode = "review"
    /\ \E i \in DOMAIN pendingItems : pendingItems[i].tempId = tempId
    /\ pendingItems' = [i \in DOMAIN pendingItems |->
                           IF pendingItems[i].tempId = tempId
                           THEN Merge(pendingItems[i], updates)
                           ELSE pendingItems[i]]
    /\ UNCHANGED <<people, expenses, viewVars, searchVars, appVars>>
    /\ UNCHANGED <<mode, payer, globalDiscount, billType, isScanning, parseInFlight, notice>>

\* The edits the amount input of a review row makes through updateItem
ReviewUpdates == {[amount |-> ParseFloatOrZero(t)] : t \in ReviewAmountTexts}

\* toggleOwner(tempId), offered while the bill is shared
ToggleOwner(tempId) ==
    /\ mounted /\ NoModal
    /\ mode = "review"
    /\ billType = "shared"
    /\ \E i \in DOMAIN pendingItems : pendingItems[i].tempId = tempId
    /\ pendingItems' = [i \in DOMAIN pendingItems |->
                           IF pendingItems[i].tempId = tempId
                           THEN Merge(pendingItems[i],
                                      [owner |-> NextOwner(pendingItems[i].owner, people)])
                           ELSE pendingItems[i]]
    /\ UNCHANGED <<people, expenses, viewVars, searchVars, appVars>>
    /\ UNCHANGED <<mode, payer, globalDiscount, billType, isScanning, parseInFlight, notice>>

SetBillType(type) ==
    /\ mounted /\ NoModal
    /\ mode = "review"
    /\ billType' = type
    /\ UNCHANGED <<people, expenses, viewVars, searchVars, appVars>>
    /\ UNCHANGED <<mode, pendingItems, payer, globalDiscount, isScanning, parseInFlight, notice>>

\* One of the "Who paid?" buttons, shown while the bill is shared
SetPayer(p) ==
    /\ mounted /\ NoModal
    /\ mode = "review"
    /\ billType = "shared"
    /\ p \in Range(people)
    /\ payer' = p
    /\ UNCHANGED <<people, expenses, viewVars, searchVars, appVars>>
    /\ UNCHANGED <<mode, pendingItems, globalDiscount, billType, isScanning, parseInFlight, notice>>

\* The coupon field
SetGlobalDiscount(text) ==
    /\ mounted /\ NoModal
    /\ mode = "review"
    /\ globalDiscount' = text
    /\ UNCHANGED <<people, expenses, viewVars, searchVars, appVars>>
    /\ UNCHANGED <<mode, pendingItems, payer, billType, isScanning, parseInFlight, notice>>

\* handleAddPerson(name)
HandleAddPerson(name) ==
    people' = IF \E i \in DOMAIN people : people[i] = name THEN people ELSE Append(people, name)

\* handleAddPersonInline: the quick-add field, shown while the bill is shared
HandleAddPersonInline(newPersonName) ==
    /\ mounted /\ NoModal
    /\ mode = "review"
    /\ billType = "shared"
    /\ Trim(newPersonName) # <<>>
    /\ HandleAddPerson(NameSpelled(Trim(newPersonName)))
    /\ UNCHANGED <<expenses, viewVars, searchVars, appVars, formVars>>

\* cancelReview
CancelReview ==
    /\ mode' = "input"
    /\ pendingItems' = <<>>
    /\ globalDiscount' = <<>>
    /\ billType' = "shared"
    /\ payer' = "Me"

\* The close button of the review
HandleCancelReview ==
    /\ mounted /\ NoModal
    /\ mode = "review"
    /\ CancelReview
    /\ UNCHANGED <<people, expenses, viewVars, searchVars, appVars>>
    /\ UNCHANGED <<isScanning, parseInFlight, notice>>

\* handleAddExpenses(newExpenses)
HandleAddExpenses(newExpenses) ==
    /\ uuids' = uuids + Len(newExpenses)
    /\ SetExpenses(WithIds(newExpenses, uuids) \o expenses)
    /\ analysis' = None

\* handleFinalSave
HandleFinalSave ==
    /\ mounted /\ NoModal
    /\ mode = "review"
    /\ uuids + Len(pendingItems) <= MaxUuids
    /\ Len(expenses) + Len(pendingItems) <= MaxAppExpenses
    /\ HandleAddExpenses(FinalExpenses(pendingItems, globalDiscount, billType, payer))
    /\ CancelReview
    /\ UNCHANGED <<people, viewVars>>
    /\ UNCHANGED <<mounted, isAnalyzing, analyzeInFlight, selectedItem, selectedBill, activeTab>>
    /\ UNCHANGED <<isScanning, parseInFlight, notice>>

\* handleDeleteExpense(id), from a row of the expense list
HandleDeleteExpense(id) ==
    /\ mounted /\ NoModal
    /\ \E i \in DOMAIN expenses : expenses[i].id = id
    /\ SetExpenses(DeleteExpense(expenses, id))
    /\ analysis' = None
    /\ UNCHANGED <<people, viewVars, formVars>>
    /\ UNCHANGED <<mounted, isAnalyzing, analyzeInFlight, selectedItem, selectedBill, uuids, activeTab>>

\* The user types q and picks the i-th item of the results
FindItem(q, i) ==
    /\ mounted /\ NoModal
    /\ i <= Len(expenses)
    /\ LET found == Results(expenses, q).items
       IN  /\ i \in DOMAIN found
           /\ selectedItem' = Some(found[i])
    /\ UNCHANGED <<people, expenses, viewVars, searchVars, formVars>>
    /\ UNCHANGED <<storage, mounted, analysis, isAnalyzing, analyzeInFlight, selectedBill, uuids, activeTab>>

\* The user types q and picks the j-th bill of the results
FindBill(q, j) ==
    /\ mounted /\ NoModal
    /\ j <= Len(expenses)
    /\ LET found == Results(expenses, q).bills
       IN  /\ j \in DOMAIN found
           /\ selectedBill' = Some([store |-> found[j].store, date |-> found[j].date])
    /\ UNCHANGED <<people, expenses, viewVars, searchVars, formVars>>
    /\ UNCHANGED <<storage, mounted, analysis, isAnalyzing, analyzeInFlight, selectedItem, uuids, activeTab>>

\* handleUpdateExpense(id, updates)
HandleUpdateExpense(id, updates) ==
    /\ SetExpenses(UpdateExpense(expenses, id, updates))
    /\ selectedItem' = IF selectedItem # None /\ selectedItem.value.id = id
                       THEN Some(Merge(selectedItem.value, updates))
                       ELSE selectedItem
    /\ UNCHANGED <<people, viewVars, formVars>>
    /\ UNCHANGED <<mounted, analysis, isAnalyzing, analyzeInFlight, selectedBill, uuids, activeTab>>

\* handleBulkUpdateBill(store, date, updates)
HandleBulkUpdateBill(st, d, updates) ==
    /\ SetExpenses(BulkUpdate(expenses, st, d, updates))
    /\ UNCHANGED <<people, viewVars, formVars>>
    /\ UNCHANGED <<mounted, analysis, isAnalyzing, analyzeInFlight, selectedItem, selectedBill, uuids, activeTab>>

\* ItemDetailModal.toggleOwner
ItemModalToggleOwner ==
    /\ selectedItem # None
    /\ HandleUpdateExpense(selectedItem.value.id,
                           [owner |-> NextOwner(selectedItem.value.owner, people)])

\* ItemDetailModal.handleSave
ItemModalHandleSave(editName) ==
    /\ selectedItem # None
    /\ HandleUpdateExpense(selectedItem.value.id, [description |-> editName])

\* billItems of BillDetailModal, as positions of the collection
BillItems ==
    {i \in DOMAIN expenses :
        /\ expenses[i].store = selectedBill.value.store
        /\ expenses[i].date = selectedBill.value.date}

\* The owner badge of a row of BillDetailModal
BillModalToggleOwner(i) ==
    /\ selectedBill # None
    /\ i \in BillItems
    /\ HandleUpdateExpense(expenses[i].id, [owner |-> NextOwner(expenses[i].owner, people)])

\* The name field of a row of BillDetailModal
BillModalEditDescription(i, text) ==
    /\ selectedBill # None
    /\ i \in BillItems
    /\ HandleUpdateExpense(expenses[i].id, [description |-> text])

\* BillDetailModal.handleSetPersonal
HandleSetPersonal ==
    /\ selectedBill # None
    /\ HandleBulkUpdateBill(selectedBill.value.store, selectedBill.value.date,
                            [owner |-> "Me", payer |-> "Me"])

\* BillDetailModal.handleSetShared
HandleSetShared ==
    /\ selectedBill # None
    /\ HandleBulkUpdateBill(selectedBill.value.store, selectedBill.value.date,
                            [owner |-> "Shared"])

TempIds == {TempId(i) : i \in 1..MaxAppExpenses}
ExpenseIds == {expenses[i].id : i \in DOMAIN expenses}

NextApp ==
    \/ Mount
    \/ LoadDemoData
    \/ \E desc \in ManualDescriptions, t \in UsualAmountTexts,
          d \in ManualDates, st \in ManualStores : HandleManualAdd(desc, t, d, st)
    \/ \E tempId \in TempIds : ToggleOwner(tempId)
    \/ \E type \in {"personal", "shared"} : SetBillType(type)
    \/ \E text \in NewPersonNames : HandleAddPersonInline(text)
    \/ HandleFinalSave
    \/ \E id \in ExpenseIds : HandleDeleteExpense(id)
    \/ \E q \in AppQueries, i \in 1..5 : FindItem(q, i)
    \/ \E q \in AppQueries, j \in 1..3 : FindBill(q, j)
    \/ ItemModalToggleOwner
    \/ \E i \in 1..MaxAppExpenses : BillModalToggleOwner(i)
    \/ HandleSetPersonal
    \/ HandleSetShared
    \/ CloseItemModal
    \/ CloseBillModal

\* A session of the application: entries typed by hand, owners, bills
SpecApp == InitApp /\ [][NextApp]_vars

NextEntry ==
    \/ Mount
    \/ \E desc \in ManualDescriptions, t \in ManualAmountTexts,
          d \in ManualDates, st \in ManualStores : HandleManualAdd(desc, t, d, st)
    \/ \E tempId \in TempIds, updates \in ReviewUpdates : UpdateItem(tempId, updates)
    \/ \E p \in Range(Roster) : SetPayer(p)
    \/ \E text \in CouponTexts : SetGlobalDiscount(text)
    \/ HandleCancelReview
    \/ HandleFinalSave
    \/ \E id \in ExpenseIds : HandleDeleteExpense(id)

\* A session of the application: entries typed, reviewed, confirmed
SpecEntry == InitApp /\ [][NextEntry]_vars

NextScan ==
    \/ Mount
    \/ \E desc \in ManualDescriptions, t \in UsualAmountTexts,
          d \in ManualDates, st \in ManualStores : HandleManualAdd(desc, t, d, st)
    \/ \E response \in ReceiptResponses : HandleFileSelect(response)
    \/ \E i \in 1..MaxParses : ParseReceiptResponds(i)
    \/ \E type \in {"personal", "shared"} : SetBillType(type)
    \/ \E p \in Range(Roster) : SetPayer(p)
    \/ HandleCancelReview
    \/ HandleFinalSave
    \/ \E id \in ExpenseIds : HandleDeleteExpense(id)

\* A session of the application: receipts scanned while entries are typed
SpecScan == InitApp /\ [][NextScan]_vars

\* The collections a session of the detail modals starts with: runs of the
\* demo collection
DetailCollections ==
    UNION {{SubSeq(DummyData, a, b) : b \in a..Min(a + MaxAppExpenses - 1, Len(DummyData))} :
              a \in DOMAIN DummyData}

\* The application with a saved collection, mounted
InitDetail ==
    /\ people = <<"Me", "Partner">>
    /\ expenses \in DetailCollections
    /\ now = 0
    /\ selectedStore = ""
    /\ stats = NoStats
    /\ itemStats = NoItemStats
    /\ plan = NoPlan
    /\ rendered = {}
    /\ InitGlobalSearch
    /\ InitAppState
    /\ InitExpenseForm
    /\ storage = Some(Stringify(expenses))
    /\ mounted = TRUE

NextDetail ==
    \/ \E q \in AppQueries, i \in 1..5 : FindItem(q, i)
    \/ \E q \in AppQueries, j \in 1..3 : FindBill(q, j)
    \/ \E text \in ModalDescriptions : ItemModalHandleSave(text)
    \/ \E i \in 1..MaxAppExpenses, text \in ModalDescriptions : BillModalEditDescription(i, text)
    \/ CloseItemModal
    \/ CloseBillModal

\* The detail modals over a saved collection: items and bills renamed
SpecDetail == InitDetail /\ [][NextDetail]_vars

-----------------------------------------------------------------------------
(* The review of a bill with a coupon *)

\* The amounts of the items under review: nothing, less than a cent, usual
\* prices, a refund
CouponAmounts == {Zero, Fin(3, 500), Num(5), Num(10), Num(-5)}

\* What the coupon field holds: nothing, a coupon, a negative number, more
\* than any bill, a cent
CouponValueTexts == { <<>>, <<"5">>, <<"-", "5">>, <<"2", "0">>, <<"0", ".", "0", "1">> }

PendingItem(i, a) ==
    [tempId |-> TempId(i), description |-> <<"O", "a", "t">>, amount |-> a,
     date |-> <<"2", "0", "2", "3", "-", "1", "0", "-", "3", "0">>,
     category |-> CategoryPantry, store |-> <<"C", "o", "s", "t", "c", "o">>,
     owner |-> "Shared"]

\* The bills under review: up to MaxAppExpenses items
PendingBills ==
    UNION {{[i \in 1..n |-> PendingItem(i, f[i])] : f \in [1..n -> CouponAmounts]} :
              n \in 1..MaxAppExpenses}

\* The form in review over an empty, saved collection
InitCoupon ==
    /\ people = <<"Me", "Partner">>
    /\ expenses = <<>>
    /\ now = 0
    /\ selectedStore = ""
    /\ stats = NoStats
    /\ itemStats = NoItemStats
    /\ plan = NoPlan
    /\ rendered = {}
    /\ InitGlobalSearch
    /\ InitAppState
    /\ storage = Some(Stringify(<<>>))
    /\ mounted = TRUE
    /\ mode = "review"
    /\ pendingItems \in PendingBills
    /\ payer = "Me"
    /\ globalDiscount = <<>>
    /\ billType = "shared"
    /\ isScanning = FALSE
    /\ parseInFlight = <<>>
    /\ notice = ""

NextCoupon ==
    \/ \E text \in CouponValueTexts : SetGlobalDiscount(text)
    \/ HandleFinalSave

\* The coupon is typed and the bill confirmed
SpecCoupon == InitCoupon /\ [][NextCoupon]_vars

-----------------------------------------------------------------------------
(* The insight *)

\* analyzeExpenses for an empty list
EmptyListAnalysis ==
    [summary |-> "No grocery data recorded yet. Scan a receipt to get started!",
     tips |-> <<"Track your weekly grocery runs to spot trends.">>,
     sentiment |-> "neutral"]

\* analyzeExpenses, the catch block
FallbackAnalysis ==
    [summary |-> "Unable to generate analysis at this time.",
     tips |-> <<"Check your network connection.", "Try again later.">>,
     sentiment |-> "neutral"]

\* What the insight service answers: it throws, it answers without text, its
\* text is not JSON, or its text is the JSON of an analysis
AnalysisResponses ==
    {[kind |-> "throws"],
     [kind |-> "noText"],
     [kind |-> "badText"],
     [kind |-> "text",
      json |-> [summary |-> "Spending is steady.", tips |-> <<"Buy in bulk.">>,
                sentiment |-> "positive"]]}

AnalyzeExpensesRethrowing(es, response) ==
    IF Len(es) = 0 THEN [called |-> FALSE, rejected |-> FALSE, value |-> EmptyListAnalysis]
    ELSE IF response.kind = "text"
    THEN [called |-> TRUE, rejected |-> FALSE, value |-> response.json]
    ELSE [called |-> TRUE, rejected |-> TRUE, value |-> FallbackAnalysis]

\* analyzeExpenses(expenses), the service answering with response: whether the
\* service is called, whether the promise rejects, what it resolves with
AnalyzeExpenses(es, response) ==
    IF Len(es) = 0 THEN [called |-> FALSE, rejected |-> FALSE, value |-> EmptyListAnalysis]
    ELSE IF response.kind = "text"
    THEN [called |-> TRUE, rejected |-> FALSE, value |-> response.json]
    ELSE [called |-> TRUE, rejected |-> FALSE, value |-> FallbackAnalysis]

\* What handleAnalyze does once analyzeExpenses has settled: the result is set
\* unless the promise rejected, and the finally block resets isAnalyzing
AnalysisSettled(outcome) ==
    /\ analysis' = IF outcome.rejected THEN analysis ELSE Some(outcome.value)
    /\ isAnalyzing' = FALSE

\* handleAnalyze up to the await.  For an empty list analyzeExpenses resolves
\* at once; otherwise the request leaves with the list it was given, and the
\* answer the service will give is on its way.
HandleAnalyze(response) ==
    /\ mounted /\ NoModal
    /\ ~isAnalyzing
    /\ IF ~AnalyzeExpenses(expenses, response).called
       THEN /\ AnalysisSettled(AnalyzeExpenses(expenses, response))
            /\ UNCHANGED analyzeInFlight
       ELSE /\ isAnalyzing' = TRUE
            /\ analyzeInFlight' = Append(analyzeInFlight, [sent |-> expenses, response |-> response])
            /\ UNCHANGED analysis
    /\ UNCHANGED <<people, expenses, viewVars, searchVars, formVars>>
    /\ UNCHANGED <<storage, mounted, selectedItem, selectedBill, uuids, activeTab>>

\* handleAnalyze after the await: the service has answered
AnalyzeResponds ==
    /\ analyzeInFlight # <<>>
    /\ analyzeInFlight' = Tail(analyzeInFlight)
    /\ AnalysisSettled(AnalyzeExpenses(Head(analyzeInFlight).sent, Head(analyzeInFlight).response))
    /\ UNCHANGED <<people, expenses, viewVars, searchVars, formVars>>
    /\ UNCHANGED <<storage, mounted, selectedItem, selectedBill, uuids, activeTab>>

\* The application with a saved collection, which may be empty
InitInsight ==
    /\ people = <<"Me", "Partner">>
    /\ expenses \in DetailCollections \cup {<<>>}
    /\ now = 0
    /\ selectedStore = ""
    /\ stats = NoStats
    /\ itemStats = NoItemStats
    /\ plan = NoPlan
    /\ rendered = {}
    /\ InitGlobalSearch
    /\ InitAppState
    /\ InitExpenseForm
    /\ storage = Some(Stringify(expenses))
    /\ mounted = TRUE

NextInsight ==
    \/ \E response \in AnalysisResponses : HandleAnalyze(response)
    \/ AnalyzeResponds
    \/ \E id \in ExpenseIds : HandleDeleteExpense(id)

\* Insights are asked for while the collection shrinks
SpecInsight == InitInsight /\ [][NextInsight]_vars

-----------------------------------------------------------------------------
(* Claims about the collection of the application *)

\* C14: in every reachable state every expense of the collection has an
\* amount that is not negative.
C14_AmountsNonNegative ==
    \A i \in DOMAIN expenses : ~NumLess(expenses[i].amount, Zero)

IdsOf(es) == {es[i].id : i \in DOMAIN es}

\* C16: no two expenses of the collection share an id; a step that adds
\* expenses puts them in front with ids the collection did not hold, and a
\* step that keeps the number of expenses keeps the id at every position.
C16_Ids ==
    [][/\ \A i, j \in DOMAIN expenses' : i # j => expenses'[i].id # expenses'[j].id
       /\ Len(expenses') = Len(expenses) =>
              \A i \in DOMAIN expenses : expenses'[i].id = expenses[i].id
       /\ Len(expenses') > Len(expenses) =>
              LET added == Len(expenses') - Len(expenses)
              IN  /\ \A i \in 1..added : expenses'[i].id \notin IdsOf(expenses)
                  /\ \A i \in DOMAIN expenses : expenses'[added + i].id = expenses[i].id]_vars

\* Two expenses were typed in, and the older one was updated since
C16_Witness ==
    /\ Len(expenses) = 2
    /\ expenses[1].id = RandomUUID(2)
    /\ expenses[2].id = RandomUUID(1)
    /\ expenses[2].owner = "Partner"
    /\ expenses[1].owner = "Shared"

\* What a bulk update of the selected bill leaves behind
BulkApplied(changed(_)) ==
    /\ Len(expenses') = Len(expenses)
    /\ \A i \in DOMAIN expenses :
          expenses'[i] = IF /\ expenses[i].store = selectedBill.value.store
                            /\ expenses[i].date = selectedBill.value.date
                         THEN changed(expenses[i])
                         ELSE expenses[i]

MadePersonal(e) == [e EXCEPT !.owner = "Me", !.payer = "Me"]
MadeShared(e) == [e EXCEPT !.owner = "Shared"]

\* C17: in the one step of "Make Personal" or "Make Shared", every expense
\* whose store and date are those of the bill gets the new owner (and payer),
\* every other expense, the length and the order of the collection stay.
C17_BulkExact ==
    [][/\ HandleSetPersonal => BulkApplied(MadePersonal)
       /\ HandleSetShared => BulkApplied(MadeShared)]_vars

\* A bill was made personal while the same store's bill of another day is open
\* in the collection and untouched
C17_Witness ==
    /\ selectedBill # None
    /\ \E i, k \in DOMAIN expenses :
          /\ expenses[i].store = selectedBill.value.store
          /\ expenses[i].date = selectedBill.value.date
          /\ expenses[i].id[1] = "demo"
          /\ expenses[i].owner = "Me"
          /\ expenses[i].payer = "Me"
          /\ expenses[k].store = expenses[i].store
          /\ expenses[k].date # expenses[i].date
          /\ expenses[k].owner = "Shared"

-----------------------------------------------------------------------------
(* Claims about the coupon *)

\* The step of handleFinalSave
SavedByConfirm ==
    /\ mode = "review"
    /\ mode' = "input"
    /\ Len(expenses') = Len(expenses) + Len(pendingItems)

RECURSIVE Subtotal(_)
Subtotal(items) ==
    IF items = <<>> THEN Zero ELSE NumAdd(Head(items).amount, Subtotal(Tail(items)))

\* x <= y
NumAtMost(x, y) == ~NumLess(y, x)

\* s is x rounded to 2 decimals
RoundedTo2(s, x) ==
    /\ 100 % s.d = 0
    /\ NumAtMost(NumSub(s, x), Fin(1, 200))
    /\ NumAtMost(NumSub(x, s), Fin(1, 200))

\* max(0, a - D * a / T) with a coupon D > 0 over a subtotal T > 0, else a
Discounted(a, D, T) ==
    IF NumLess(Zero, D) /\ NumLess(Zero, T)
    THEN LET x == NumSub(a, NumDiv(NumMul(D, a), T)) IN IF NumLess(x, Zero) THEN Zero ELSE x
    ELSE a

\* The i-th item of the review is saved with its discounted amount, rounded,
\* and with its pending amount as originalAmount
SavedDiscounted(i) ==
    /\ RoundedTo2(expenses'[i].amount,
                  Discounted(pendingItems[i].amount, ParseFloatOrZero(globalDiscount),
                             Subtotal(pendingItems)))
    /\ expenses'[i].originalAmount = pendingItems[i].amount

\* C19 as stated: on confirm every item is saved with max(0, a - D*a/T)
\* rounded (a itself without coupon or subtotal) and originalAmount a, and no
\* saved amount of an item with a >= 0 exceeds its originalAmount.
C19_NeverAboveOriginal ==
    [][SavedByConfirm =>
          \A i \in DOMAIN pendingItems :
              /\ SavedDiscounted(i)
              /\ NumAtMost(Zero, pendingItems[i].amount) =>
                     NumAtMost(expenses'[i].amount, expenses'[i].originalAmount)]_vars

\* C19, amended: on confirm every item is saved with max(0, a - D*a/T)
\* rounded (a itself without coupon or subtotal) and originalAmount a; the
\* saved amount of an item with a >= 0 exceeds its originalAmount by at most
\* half a cent, and not at all when a is a whole number of cents.
C19_CouponDistribution ==
    [][SavedByConfirm =>
          \A i \in DOMAIN pendingItems :
              /\ SavedDiscounted(i)
              /\ NumAtMost(Zero, pendingItems[i].amount) =>
                     /\ NumAtMost(expenses'[i].amount,
                                  NumAdd(expenses'[i].originalAmount, Fin(1, 200)))
                     /\ 100 % pendingItems[i].amount.d = 0 =>
                            NumAtMost(expenses'[i].amount, expenses'[i].originalAmount)]_vars

\* A coupon larger than the bill was confirmed: an item of 5 is saved as 0,
\* and next to it an item of less than a cent
C19_Witness ==
    /\ mode = "input"
    /\ \E i, k \in DOMAIN expenses :
          /\ expenses[i].originalAmount = Num(5)
          /\ expenses[i].amount = Zero
          /\ expenses[k].originalAmount = Fin(3, 500)

-----------------------------------------------------------------------------
(* Claims about the insight *)

\* C20: when the service has thrown or answered without text, the analysis
\* becomes the neutral fallback with the retry tips; for an empty list the
\* analysis becomes a neutral result and no request is made; either way
\* isAnalyzing is false afterwards, and it is true only while a request is
\* under way.
C20_NeverFails ==
    [][/\ (analyzeInFlight # <<>> /\ analyzeInFlight' = Tail(analyzeInFlight)) =>
              /\ ~isAnalyzing'
              /\ Head(analyzeInFlight).response.kind \in {"throws", "noText"} =>
                     /\ analysis' # None
                     /\ analysis'.value.sentiment = "neutral"
                     /\ analysis'.value.summary = "Unable to generate analysis at this time."
                     /\ analysis'.value.tips = <<"Check your network connection.", "Try again later.">>
       /\ (expenses = <<>> /\ analyzeInFlight = <<>> /\ analysis' # analysis) =>
              /\ ~isAnalyzing'
              /\ analyzeInFlight' = analyzeInFlight
              /\ analysis' # None
              /\ analysis'.value.sentiment = "neutral"
       /\ isAnalyzing' => analyzeInFlight' # <<>>]_vars

\* The service failed for a list that is not empty, and the fallback is shown
C20_Witness ==
    /\ expenses # <<>>
    /\ ~isAnalyzing
    /\ analyzeInFlight = <<>>
    /\ analysis # None
    /\ analysis.value.summary = "Unable to generate analysis at this time."

-----------------------------------------------------------------------------
(* Claims about the scan of a receipt *)

\* The step in which the i-th parseReceipt call under way settles
ParseSettles(i) ==
    /\ i \in DOMAIN parseInFlight
    /\ parseInFlight' = RemoveAt(parseInFlight, i)

\* C21: when a parseReceipt call fails (the service throws or answers without
\* text), the step in which it settles shows the notice and leaves the mode of
\* the form, the pending items, the coupon, bill type, payer and the
\* collection as they were.
C21_AllOrNothing ==
    [][\A i \in DOMAIN parseInFlight :
          (ParseSettles(i) /\ parseInFlight[i].kind \in {"throws", "noText"}) =>
              /\ notice' = CouldNotExtract
              /\ UNCHANGED <<mode, pendingItems, globalDiscount, billType, payer, expenses>>]_vars

\* A parse has failed while an entry typed by hand was under review, and the
\* review is still there
C21_Witness ==
    /\ notice = CouldNotExtract
    /\ parseInFlight = <<>>
    /\ mode = "review"
    /\ Len(pendingItems) = 1
    /\ pendingItems[1].description = <<"M", "i", "l", "k">>

-----------------------------------------------------------------------------
(* Inputs of the purchase cycles: one item under two spellings and another
   item, bought on three days, seen on the day of the last purchase and three
   days later *)

CycleDescriptions == {<<"M">>, <<"m", " ">>, <<"E">>}
CycleDates == {0, 3, 10}
CycleNows == {GetTime(10), GetTime(10) + 12, GetTime(13)}

CycleExpense(desc, d) ==
    [id |-> 0, description |-> desc, amount |-> 10, date |-> d,
     category |-> "Bakery", store |-> "A", payer |-> "Me", owner |-> "Shared"]

CycleExpenses == {CycleExpense(desc, d) : desc \in CycleDescriptions, d \in CycleDates}

InitCycle ==
    /\ people = <<"Me", "Partner">>
    /\ expenses \in SeqsUpTo(CycleExpenses, MaxCycleExpenses)
    /\ now \in CycleNows
    /\ selectedStore = ""
    /\ stats = NoStats
    /\ itemStats = NoItemStats
    /\ plan = NoPlan
    /\ rendered = {}
    /\ InitAroundAnalytics

NextCycle == RenderDashboard

\* The dashboard is rendered for a collection of repeated purchases
SpecCycle == InitCycle /\ [][NextCycle]_vars

-----------------------------------------------------------------------------
(* Claims about the item groups *)

\* The most recent purchase date of an item
LatestDate(key) == CHOOSE d \in PurchaseDates(key) : \A other \in PurchaseDates(key) : other <= d
EarliestDate(key) == CHOOSE d \in PurchaseDates(key) : \A other \in PurchaseDates(key) : d <= other

\* The descriptions under which an item was bought on its most recent date
LatestNames(key) ==
    {expenses[i].description : i \in {j \in Purchases(key) : expenses[j].date = LatestDate(key)}}

\* C22: the display name of every item group, in the predictor and in the
\* optimizer, is the description of an expense of the group with the most
\* recent purchase date, whatever the order of the collection.
C22_NameOfLatestPurchase ==
    /\ ShelfRendered =>
          \A key \in Keys : HasStat(key) /\ StatOf(key).name \in LatestNames(key)
    /\ PlanRendered =>
          \A x \in SeqRange(plan.smartBuys) \cup SeqRange(plan.otherNeeds) :
              x.name \in LatestNames(NormName(x.name))

\* C23: for every item, daysSinceLastPurchase is the number of whole days
\* from the latest purchase date to now; avgCycle is null for one purchase and
\* otherwise (latest - earliest) / (n - 1) days rounded to the nearest day,
\* halves upwards, whatever the order of the collection.
C23_CycleStatistics ==
    ShelfRendered =>
        \A key \in Keys :
            LET n == Cardinality(Purchases(key))
                span == LatestDate(key) - EarliestDate(key)
                st == StatOf(key)
            IN  /\ HasStat(key)
                /\ st.purchaseCount = n
                /\ st.daysSinceLastPurchase * HoursPerDay <= now - GetTime(LatestDate(key))
                /\ now - GetTime(LatestDate(key)) < (st.daysSinceLastPurchase + 1) * HoursPerDay
                /\ n = 1 => st.avgCycle.isNull
                /\ n >= 2 =>
                       /\ ~st.avgCycle.isNull
                       /\ 2 * (n - 1) * st.avgCycle.days - 2 * span <= n - 1
                       /\ 2 * span - 2 * (n - 1) * st.avgCycle.days < n - 1

\* Three purchases, not in date order, 10 days from the first to the last:
\* the cycle is 5 days
C23_Witness ==
    /\ ShelfRendered
    /\ Len(expenses) = 3
    /\ expenses[1].date = 3 /\ expenses[2].date = 10 /\ expenses[3].date = 0
    /\ \E key \in Keys :
          /\ Cardinality(Purchases(key)) = 3
          /\ StatOf(key).avgCycle = Known(5)
          /\ StatOf(key).daysSinceLastPurchase = 3

\* How many entries of the predictor's output are on the shopping list
UrgentCount == Cardinality({i \in DOMAIN itemStats : Score(itemStats[i].status) >= 3})

C29_JustBoughtNotFlagged ==
    (ShelfRendered /\ PlanRendered) =>
        \A key \in Keys :
            NowIsDay(LatestDate(key)) =>
                /\ StatOf(key).daysSinceLastPurchase = 0
                /\ StatOf(key).status = "Good"
                /\ key \notin NeededKeys

-----------------------------------------------------------------------------
(* StorePlanner: the savings shown for an item of other needs.              *)

\* C30: every item of other needs that was bought at the selected store has
\* savings > 0 and a cheapestStore other than the selected store, also when
\* stores tie for the minimum average price.
C30_SavingsAreReal ==
    (PlanRendered /\ selectedStore # "") =>
        \A key \in NeededKeys :
            selectedStore \in StoresOf(key) =>
                \A i \in OtherNeedsOf(key) :
                    /\ NumLess(Zero, plan.otherNeeds[i].savings)
                    /\ plan.otherNeeds[i].cheapestStore # selectedStore

-----------------------------------------------------------------------------
(* The tabs of the main area: the dashboard, or the list of all items *)

\* expenses.sort((a, b) => new Date(b.date).getTime() - new Date(a.date).getTime())
SortByDate(es) == SortDescending(es, [i \in DOMAIN es |-> DateStringTime(es[i].date)])

\* setActiveTab(tab) and the render that follows.  Under 'list' the main area
\* is <ExpenseList expenses={expenses} />, whose render sorts the array it is
\* given, which is the array held in App's state: no state is set, so the
\* save effect and the memos that depend on expenses do not run.  The panel
\* 'Recent Additions' sorts expenses.slice(0, 5), a copy.
SetActiveTab(tab) ==
    /\ mounted /\ NoModal
    /\ tab # activeTab
    /\ activeTab' = tab
    /\ expenses' = IF tab = "list" THEN SortByDate(expenses) ELSE expenses
    /\ rendered' = {}
    /\ UNCHANGED <<people, now, selectedStore, stats, itemStats, plan, searchVars, formVars>>
    /\ UNCHANGED <<storage, mounted, analysis, isAnalyzing, analyzeInFlight, selectedItem,
                   selectedBill, uuids>>

InitList == InitDetail

NextList ==
    \/ \E tab \in {"dashboard", "list"} : SetActiveTab(tab)
    \/ \E q \in AppQueries, i \in 1..5 : FindItem(q, i)
    \/ CloseItemModal
    \/ \E id \in ExpenseIds : HandleDeleteExpense(id)

\* A saved collection is looked at under both tabs, and rows are deleted
SpecList == InitList /\ [][NextList]_vars

\* C27: displaying the expense list leaves the collection as it was, the order
\* of its elements included: a change of tab does not change the collection.
C27_RenderingReadOnly == [][activeTab' # activeTab => expenses' = expenses]_vars

-----------------------------------------------------------------------------
(* Claims about the freshness of the insights *)

\* C25: the insights shown are never stale: when an analysis request completes
\* and leaves an analysis that is not null, the analysis was computed from
\* exactly the current collection.
C25_InsightsNeverStale ==
    [][(/\ analyzeInFlight # <<>>
        /\ analyzeInFlight' = Tail(analyzeInFlight)
        /\ analysis' # None) => Head(analyzeInFlight).sent = expenses']_vars

-----------------------------------------------------------------------------
(* Claims about a scan that overlaps a review *)

\* C26: isScanning is true for as long as a parseReceipt call is under way, and
\* a parse result that arrives while pending items are under review does not
\* replace them, nor reset their bill type and payer.
C26_ReviewNotClobbered ==
    [][/\ parseInFlight' # <<>> => isScanning'
       /\ (mode = "review" /\ \E i \in DOMAIN parseInFlight : ParseSettles(i)) =>
              UNCHANGED <<pendingItems, billType, payer>>]_vars

-----------------------------------------------------------------------------
(* Claims about the total of a bill with a coupon *)

\* finalTotal of the review footer: Math.max(0, totalAmount - discountNum)
FinalTotal(items, discountText) ==
    MaxWithZero(NumSub(TotalBillAmount(items), ParseFloatOrZero(discountText)))

\* The sum of the amounts that the confirmation adds to the collection
SavedTotal == Subtotal(SubSeq(expenses', 1, Len(pendingItems)))

\* Every pending amount is a whole number of cents and not negative
WholeCents ==
    \A i \in DOMAIN pendingItems :
        /\ NumAtMost(Zero, pendingItems[i].amount)
        /\ 100 % pendingItems[i].amount.d = 0

\* C28: on confirm of a bill whose pending amounts are whole cents and not
\* negative, the saved amounts add up to the net total of the review footer,
\* max(0, T - D), to the cent.
C28_CouponTotalConserved ==
    [][(SavedByConfirm /\ WholeCents) => SavedTotal = FinalTotal(pendingItems, globalDiscount)]_vars
====
